---- MODULE Spec2Model ----
(***************************************************************************)
(* A model of the backtesting engine of Trade-Strat-Sim:                   *)
(*   - the price resolution service with its two providers and its cache   *)
(*     file (src/mcp-trader/smart_leaps_backtest.py),                      *)
(*   - the trading calendar cache                                          *)
(*     (src/src/backtesting_engine/market_days_cache.py),                  *)
(*   - the ITM call filter and the selection engine of the two strategies  *)
(*     (src/src/backtesting_engine/accurate_optimized_leaps.py),           *)
(*   - the compounding orchestrator (src/scripts/run_gemini_backtest.py),  *)
(*   - position sizing (src/src/backtesting_engine/capital_management.py), *)
(*   - the compounding backtest of a year and of a range of years          *)
(*     (src/scripts/run_claude_backtest.py) with the quarterly strategy of *)
(*     a year (accurate_optimized_leaps.py),                               *)
(*   - the classification of a provider's response and the search of the   *)
(*     market days of a year (smart_leaps_backtest.py).                    *)
(* Each component has its own specification over the module's variables;   *)
(* the variables of the other components stay at their initial values.     *)
(***************************************************************************)
EXTENDS Integers, Sequences, FiniteSets, TLC

VARIABLES
  cacheFile,     \* smart_stock_cache.json, its "providers" object
  clock,         \* datetime.now(), in ticks of half an hour
  apiCalls,      \* history: fresh calls made to each provider, per symbol and date
  resolves,      \* history: calls of get_stock_price_with_smart_fallback so far
  closedBy,      \* history: (provider, symbol, date) a call classified market closed
  lastResolve    \* history: what the most recent call read, called and returned

priceVars == <<cacheFile, clock, apiCalls, resolves, closedBy, lastResolve>>

VARIABLES
  calFile,       \* market_days_cache.json: its trading_days, years and symbols
  lastCal        \* history: what the most recent calendar query did and returned

calVars == <<calFile, lastCal>>

VARIABLES
  bulk_data,     \* the bulk answer handed to filter_itm_calls_from_bulk
  stock_price,   \* the spot price handed to it, in thousandths of a dollar
  valid_calls    \* what it returned; None while it has not been called

itmVars == <<bulk_data, stock_price, valid_calls>>

VARIABLES
  theta,         \* the market-data provider's answers to the selection engine
  trade_in,      \* the call made to the engine: the strategy and its arguments
  trade_out      \* what the call returned and the calls it made; None before

tradeVars == <<theta, trade_in, trade_out>>

VARIABLES
  market,        \* what the calendar, the price service and the provider answer a run
  run_in,        \* the call made to the orchestrator: the strategy and its arguments
  run_out        \* what the call returned and the trades it settled; None before

geminiVars == <<market, run_in, run_out>>

VARIABLES
  size_in,       \* the call made to the capital manager: the function and its arguments
  size_out       \* the dictionary it returned; None before

capitalVars == <<size_in, size_out>>

VARIABLES
  world,         \* what the calendar, the price service and the provider answer a backtest
  backtest_in,   \* the call made to a backtest of a year: the function and its arguments
  backtest_out   \* what the call returned, or the exception it raised; None before

backtestVars == <<world, backtest_in, backtest_out>>

VARIABLES
  raw_in,        \* what a provider call meets: the provider, its API key and its response
  classified     \* the classified result of the call; None before

classifyVars == <<raw_in, classified>>

VARIABLES
  smartFile,     \* smart_stock_cache.json, its "providers" and "market_days" objects
  searches,      \* history: searches of a market day made so far
  lastSearch     \* history: what the most recent search returned and what it had written

searchVars == <<smartFile, searches, lastSearch>>

vars == <<priceVars, calVars, itmVars, tradeVars, geminiVars, capitalVars, backtestVars, classifyVars, searchVars>>

\* What the actions of one component leave alone.
notPriceVars == <<calVars, itmVars, tradeVars, geminiVars, capitalVars, backtestVars, classifyVars, searchVars>>
notCalVars == <<priceVars, itmVars, tradeVars, geminiVars, capitalVars, backtestVars, classifyVars, searchVars>>
notItmVars == <<priceVars, calVars, tradeVars, geminiVars, capitalVars, backtestVars, classifyVars, searchVars>>
notTradeVars == <<priceVars, calVars, itmVars, geminiVars, capitalVars, backtestVars, classifyVars, searchVars>>
notGeminiVars == <<priceVars, calVars, itmVars, tradeVars, capitalVars, backtestVars, classifyVars, searchVars>>
notCapitalVars == <<priceVars, calVars, itmVars, tradeVars, geminiVars, backtestVars, classifyVars, searchVars>>
notBacktestVars == <<priceVars, calVars, itmVars, tradeVars, geminiVars, capitalVars, classifyVars, searchVars>>
notClassifyVars == <<priceVars, calVars, itmVars, tradeVars, geminiVars, capitalVars, backtestVars, searchVars>>
notSearchVars == <<priceVars, calVars, itmVars, tradeVars, geminiVars, capitalVars, backtestVars, classifyVars>>

(***************************************************************************)
(* Bounds of the model.                                                    *)
(***************************************************************************)
MaxResolves == 3
MaxClock == 2
MaxLines == 2
MaxChain == 3
MaxExps == 3
MaxRows == 3
MaxQuotes == 2

\* One hour (the staleness window of a temporary failure), in clock ticks.
HourTicks == 2

(***************************************************************************)
(* Python's Optional: None is the empty sequence, a value v is <<v>>.      *)
(***************************************************************************)
None == <<>>
Some(v) == <<v>>

(***************************************************************************)
(*                      PRICE RESOLUTION SERVICE                           *)
(***************************************************************************)
Providers == {"tiingo", "marketstack"}
PriceSymbols == {"GOOG"}
PriceDates == {"20220103", "20220117"}
PriceValues == {150}

PERMANENT_ERRORS == {"market_closed", "no_data_available"}
TEMPORARY_ERRORS == {"rate_limit", "timeout", "server_error", "unauthorized", "network_error"}
CACHE_FOREVER_TYPES == {"success", "market_closed", "first_market_day"}

\* "needle in text.lower()" for the texts and needles of this model.
SubstringFacts ==
  { <<"Rate limit exceeded", "rate limit">>,
    <<"Unauthorized", "unauthorized">>,
    <<"rate_limit_reached", "rate">>,
    <<"rate_limit_reached", "limit">>,
    <<"usage_limit_reached", "limit">>,
    <<"invalid_access_key", "access">>,
    <<"unauthorized", "auth">> }

LowerContains(text, needle) == <<text, needle>> \in SubstringFacts

(***************************************************************************)
(* A decoded JSON body, as far as the classifiers look at it:              *)
(*   type      "list", "dict" or "other"                                   *)
(*   has_data  (dict) "data" is present and is a list                      *)
(*   items     length of the list (tiingo) or of "data" (marketstack)      *)
(*   has_open  the first item has an "open"; open is its value             *)
(*   has_error (dict) "error" is present; text is its message (tiingo) or  *)
(*             its code (marketstack)                                      *)
(***************************************************************************)
Json(type, has_data, items, has_open, open, has_error, text) ==
  [type |-> type, has_data |-> has_data, items |-> items, has_open |-> has_open,
   open |-> open, has_error |-> has_error, text |-> text]

NoJson == Json("none", FALSE, 0, FALSE, 0, FALSE, "")

\* The response bodies the model draws from: for each provider a quote (each
\* price), an empty result, and an error object.
TiingoBodies ==
  { Json("list", FALSE, 1, TRUE, p, FALSE, "") : p \in PriceValues }
  \cup { Json("list", FALSE, 0, FALSE, 0, FALSE, ""),
         Json("dict", FALSE, 0, FALSE, 0, TRUE, "Rate limit exceeded") }

MarketStackBodies ==
  { Json("dict", TRUE, 1, TRUE, p, FALSE, "") : p \in PriceValues }
  \cup { Json("dict", TRUE, 0, FALSE, 0, FALSE, ""),
         Json("dict", FALSE, 0, FALSE, 0, TRUE, "rate_limit_reached") }

\* What api_call_with_classification returns: the decoded body, or the error
\* of a call that failed.
api_call_with_classification(bodies, errors) ==
  { [call_success |-> TRUE, error |-> "", raw_response |-> b] : b \in bodies }
  \cup { [call_success |-> FALSE, error |-> e, raw_response |-> NoJson] : e \in errors }

NoResponse == [call_success |-> FALSE, error |-> "", raw_response |-> NoJson]

\* What a provider call meets: whether the .env file holds the API key, and
\* the response of the HTTP call (none is made without a key).
ProviderEnv(keys, bodies, errors) ==
  { [has_key |-> FALSE, response |-> NoResponse] : k \in keys \ {TRUE} }
  \cup { [has_key |-> TRUE, response |-> r] :
           r \in api_call_with_classification(bodies, errors) }

\* The environments the model draws from.  Of the failures the code knows,
\* the primary provider meets a missing key and an error object, the
\* secondary a timeout and an error object.
TiingoEnvs == ProviderEnv(BOOLEAN, TiingoBodies, {})
MarketStackEnvs == ProviderEnv({TRUE}, MarketStackBodies, {"timeout"})

\* A classified result.  The fields message, date and full_data, which no
\* decision reads, are left out.
Result(provider, success, price, error, cache_type) ==
  [provider |-> provider, success |-> success, price |-> price,
   error |-> error, cache_type |-> cache_type]

classify_tiingo_response(response) ==
  IF ~response.call_success
    THEN Result("tiingo", FALSE, 0, response.error, "temporary_failure")
    ELSE LET raw == response.raw_response IN
      IF raw.type = "list"
        THEN IF raw.items > 0 /\ raw.has_open
               THEN Result("tiingo", TRUE, raw.open, "", "success")
               ELSE Result("tiingo", FALSE, 0, "market_closed", "market_closed")
      ELSE IF raw.type = "dict" /\ raw.has_error
        THEN LET error_type ==
                   IF LowerContains(raw.text, "rate limit") THEN "rate_limit"
                   ELSE IF LowerContains(raw.text, "unauthorized") THEN "unauthorized"
                   ELSE "server_error"
             IN Result("tiingo", FALSE, 0, error_type, "temporary_failure")
      ELSE Result("tiingo", FALSE, 0, "unexpected_format", "temporary_failure")

classify_marketstack_response(response) ==
  IF ~response.call_success
    THEN Result("marketstack", FALSE, 0, response.error, "temporary_failure")
    ELSE LET raw == response.raw_response IN
      IF raw.type = "dict" /\ raw.has_data
        THEN IF raw.items > 0 /\ raw.has_open
               THEN Result("marketstack", TRUE, raw.open, "", "success")
               ELSE Result("marketstack", FALSE, 0, "market_closed", "market_closed")
      ELSE IF raw.type = "dict" /\ raw.has_error
        THEN LET error_type ==
                   IF LowerContains(raw.text, "rate") \/ LowerContains(raw.text, "limit")
                     THEN "rate_limit"
                   ELSE IF LowerContains(raw.text, "access") \/ LowerContains(raw.text, "auth")
                     THEN "unauthorized"
                   ELSE "server_error"
             IN Result("marketstack", FALSE, 0, error_type, "temporary_failure")
      ELSE Result("marketstack", FALSE, 0, "unexpected_format", "temporary_failure")

\* A variant that does not look for the API key.
tiingo_without_key_check(env) == classify_tiingo_response(env.response)

get_stock_price_tiingo(env) ==
  IF ~env.has_key
    THEN Result("tiingo", FALSE, 0, "no_api_key", "temporary_failure")
    ELSE classify_tiingo_response(env.response)

get_stock_price_marketstack(env) ==
  IF ~env.has_key
    THEN Result("marketstack", FALSE, 0, "no_api_key", "temporary_failure")
    ELSE classify_marketstack_response(env.response)

(***************************************************************************)
(* The cache: [provider -> [cache_key -> entry]], an entry being a result  *)
(* with its cached_at timestamp.                                           *)
(***************************************************************************)
CacheKey(provider, symbol, date) == provider \o "_" \o symbol \o "_" \o date

EmptyCache == [p \in Providers |-> <<>>]

\* A variant in which every entry ages, the permanent ones too.
is_cache_entry_valid_aged(entry, now) ==
  IF entry.cached_at = None THEN FALSE
  ELSE now - entry.cached_at[1] < HourTicks

\* A variant in which no entry expires.
is_cache_entry_valid_forever(entry, now) == entry.cached_at # None

is_cache_entry_valid(entry, now) ==
  IF entry.cached_at = None THEN FALSE
  ELSE IF entry.cache_type \in CACHE_FOREVER_TYPES THEN TRUE
  ELSE now - entry.cached_at[1] < HourTicks

\* cache.get("providers", {}).get(provider, {}).get(cache_key)
CachedEntry(cache, provider, symbol, date) ==
  LET cache_key == CacheKey(provider, symbol, date) IN
  IF cache_key \in DOMAIN cache[provider] THEN Some(cache[provider][cache_key]) ELSE None

\* What get_cached_result returns.
get_cached_result(cache, now, provider, symbol, date) ==
  LET cached_entry == CachedEntry(cache, provider, symbol, date) IN
  IF cached_entry # None /\ is_cache_entry_valid(cached_entry[1], now)
    THEN cached_entry
    ELSE None

\* The cache as get_cached_result leaves it: an expired entry is deleted.
cache_after_read(cache, now, provider, symbol, date) ==
  LET cached_entry == CachedEntry(cache, provider, symbol, date)
      cache_key == CacheKey(provider, symbol, date)
  IN IF cached_entry # None /\ ~is_cache_entry_valid(cached_entry[1], now)
       THEN [cache EXCEPT ![provider] =
               [k \in DOMAIN cache[provider] \ {cache_key} |-> cache[provider][k]]]
       ELSE cache

\* A variant that caches a success only.
cache_result_success_only(cache, now, provider, symbol, date, result) ==
  LET cache_key == CacheKey(provider, symbol, date)
      entry == [provider |-> result.provider, success |-> result.success,
                price |-> result.price, error |-> result.error,
                cache_type |-> result.cache_type, cached_at |-> Some(now)]
  IN IF result.cache_type = "success"
       THEN [cache EXCEPT ![provider] =
               [k \in DOMAIN cache[provider] \cup {cache_key} |->
                  IF k = cache_key THEN entry ELSE cache[provider][k]]]
       ELSE cache

cache_result(cache, now, provider, symbol, date, result) ==
  LET cache_key == CacheKey(provider, symbol, date)
      entry == [provider |-> result.provider, success |-> result.success,
                price |-> result.price, error |-> result.error,
                cache_type |-> result.cache_type, cached_at |-> Some(now)]
  IN IF result.cache_type \in CACHE_FOREVER_TYPES \/ result.cache_type = "temporary_failure"
       THEN [cache EXCEPT ![provider] =
               [k \in DOMAIN cache[provider] \cup {cache_key} |->
                  IF k = cache_key THEN entry ELSE cache[provider][k]]]
       ELSE cache

\* History only: the state of the cached entry when the cache was read.
EntryState(cache, now, provider, symbol, date) ==
  LET cached_entry == CachedEntry(cache, provider, symbol, date) IN
  IF cached_entry = None THEN "absent"
  ELSE IF is_cache_entry_valid(cached_entry[1], now) THEN "valid"
  ELSE "expired"

ReadStep(cache, now, provider, symbol, date) ==
  LET hit == get_cached_result(cache, now, provider, symbol, date) IN
  [op |-> "read", provider |-> provider,
   cache_type |-> IF hit = None THEN "none" ELSE hit[1].cache_type,
   price |-> IF hit = None THEN 0 ELSE hit[1].price,
   entry_state |-> EntryState(cache, now, provider, symbol, date)]

CallStep(cache, now, provider, symbol, date, result) ==
  [op |-> "call", provider |-> provider, cache_type |-> result.cache_type,
   price |-> result.price,
   entry_state |-> EntryState(cache, now, provider, symbol, date)]

Outcome(ret, file, steps) == [ret |-> ret, file |-> file, steps |-> steps]

(***************************************************************************)
(* get_stock_price_with_smart_fallback.  `file` is the cache file as       *)
(* load_smart_cache reads it; the outcome's file is the cache file when    *)
(* the call returns: the working copy where save_smart_cache ran, `file`   *)
(* itself where the call returned without saving.                          *)
(***************************************************************************)
SecondaryFallback(file, cache, now, symbol, date, msEnv, steps) ==
  LET cached_ms_result == get_cached_result(cache, now, "marketstack", symbol, date)
      cache1 == cache_after_read(cache, now, "marketstack", symbol, date)
      read == ReadStep(cache, now, "marketstack", symbol, date)
  IN IF cached_ms_result # None /\ cached_ms_result[1].success
       THEN Outcome(Some(cached_ms_result[1].price), file, Append(steps, read))
     ELSE IF cached_ms_result # None /\ cached_ms_result[1].error = "market_closed"
       THEN Outcome(None, file, Append(steps, read))
     ELSE
       LET ms_result == get_stock_price_marketstack(msEnv)
           cache2 == cache_result(cache1, now, "marketstack", symbol, date, ms_result)
           call == CallStep(cache, now, "marketstack", symbol, date, ms_result)
       IN Outcome(IF ms_result.success THEN Some(ms_result.price) ELSE None,
                  cache2, steps \o <<read, call>>)

\* A variant in which a primary market_closed falls through to the secondary.
PrimaryClosedFallsThrough(file, cache, now, symbol, date, tiingo_result, msEnv, steps) ==
  IF tiingo_result.success
    THEN Outcome(Some(tiingo_result.price), cache, steps)
    ELSE SecondaryFallback(file, cache, now, symbol, date, msEnv, steps)

AfterPrimaryCall(file, cache, now, symbol, date, tiingo_result, msEnv, steps) ==
  IF tiingo_result.success
    THEN Outcome(Some(tiingo_result.price), cache, steps)
  ELSE IF tiingo_result.error = "market_closed"
    THEN Outcome(None, cache, steps)
  ELSE SecondaryFallback(file, cache, now, symbol, date, msEnv, steps)

get_stock_price_with_smart_fallback(file, now, symbol, date, tiingoEnv, msEnv) ==
  LET cached_result == get_cached_result(file, now, "tiingo", symbol, date)
      cache1 == cache_after_read(file, now, "tiingo", symbol, date)
      read == ReadStep(file, now, "tiingo", symbol, date)
  IN IF cached_result # None /\ cached_result[1].success
       THEN Outcome(Some(cached_result[1].price), file, <<read>>)
     ELSE IF cached_result # None /\ cached_result[1].error = "market_closed"
       THEN Outcome(None, file, <<read>>)
     ELSE
       LET tiingo_result == get_stock_price_tiingo(tiingoEnv)
           cache2 == cache_result(cache1, now, "tiingo", symbol, date, tiingo_result)
           call == CallStep(file, now, "tiingo", symbol, date, tiingo_result)
       IN AfterPrimaryCall(file, cache2, now, symbol, date, tiingo_result, msEnv,
                           <<read, call>>)

(***************************************************************************)
(* Actions of the price resolution service.                                *)
(***************************************************************************)
CalledIn(steps, provider) ==
  \E i \in 1..Len(steps) : steps[i].op = "call" /\ steps[i].provider = provider

ClosedIn(steps) ==
  { steps[i].provider : i \in { j \in 1..Len(steps) :
        steps[j].op = "call" /\ steps[j].cache_type = "market_closed" } }

InitPrice ==
  /\ cacheFile = EmptyCache
  /\ clock = 0
  /\ apiCalls = [k \in Providers \X PriceSymbols \X PriceDates |-> 0]
  /\ resolves = 0
  /\ closedBy = {}
  /\ lastResolve = [symbol |-> "", date |-> "", ret |-> None, steps |-> <<>>]

Resolve(symbol, date, tiingoEnv, msEnv) ==
  /\ resolves < MaxResolves
  /\ LET out == get_stock_price_with_smart_fallback(cacheFile, clock, symbol, date,
                                                    tiingoEnv, msEnv)
     IN /\ cacheFile' = out.file
        /\ apiCalls' = [k \in DOMAIN apiCalls |->
                          IF k[2] = symbol /\ k[3] = date /\ CalledIn(out.steps, k[1])
                            THEN apiCalls[k] + 1 ELSE apiCalls[k]]
        /\ closedBy' = closedBy \cup { <<p, symbol, date>> : p \in ClosedIn(out.steps) }
        /\ lastResolve' = [symbol |-> symbol, date |-> date, ret |-> out.ret,
                           steps |-> out.steps]
  /\ resolves' = resolves + 1
  /\ UNCHANGED <<clock, notPriceVars>>

Tick ==
  /\ clock < MaxClock
  /\ clock' = clock + 1
  /\ UNCHANGED <<cacheFile, apiCalls, resolves, closedBy, lastResolve, notPriceVars>>

NextPrice ==
  \/ \E symbol \in PriceSymbols, date \in PriceDates,
        tiingoEnv \in TiingoEnvs, msEnv \in MarketStackEnvs :
       Resolve(symbol, date, tiingoEnv, msEnv)
  \/ Tick

(***************************************************************************)
(*                        TRADING CALENDAR CACHE                           *)
(*                                                                         *)
(* A date string YYYYMMDD is modelled by its number: on strings of eight   *)
(* digits the order of strings is the order of numbers.  The cached_at and *)
(* meta timestamps of the cache file, which no query reads, are left out.  *)
(***************************************************************************)
CalSymbols == {"GOOG", "AAPL"}
\* The years asked for.  The provider answers with its whole history, so an
\* answer may hold dates of other years (Lines below has one of 2023).
CalYears == {2022}
Quarters == 1..4

\* day_dt.year, day_dt.month and day_dt.day of datetime.strptime(day, '%Y%m%d')
YearOf(d) == d \div 10000
MonthOf(d) == (d \div 100) % 100
DayOf(d) == d % 100

IsLeap(y) == (y % 4 = 0 /\ y % 100 # 0) \/ y % 400 = 0

DaysInMonth(y, m) ==
  IF m = 2 THEN (IF IsLeap(y) THEN 29 ELSE 28)
  ELSE IF m \in {4, 6, 9, 11} THEN 30
  ELSE 31

\* datetime.strptime(text, '%Y%m%d') of eight digits does not raise ValueError
IsDate(d) ==
  /\ YearOf(d) >= 1
  /\ MonthOf(d) \in 1..12
  /\ DayOf(d) \in 1..DaysInMonth(YearOf(d), MonthOf(d))

(***************************************************************************)
(* A line of the provider's CSV answer, stripped:                          *)
(*   kind   "header"  the line starts with "date" (or is empty, or "#..")  *)
(*          "digits"  digits only                                          *)
(*          "dashed"  has a "-" or "/", and is digits only without them    *)
(*          "text"    anything else                                        *)
(*   len    the number of digits, value their number                       *)
(***************************************************************************)
Line(kind, len, value) == [kind |-> kind, len |-> len, value |-> value]

Lines ==
  { Line("digits", 8, 20220103), Line("dashed", 8, 20220401),
    Line("digits", 8, 20230103), Line("digits", 8, 20221301),
    Line("header", 0, 0) }

Stdouts == UNION { [1..n -> Lines] : n \in 0..MaxLines }

\* What subprocess.run gives: it raises (a timeout), or returns with a
\* non-zero return code or an empty stdout, or returns the lines of stdout.
CalResponses ==
  { [kind |-> "raises", lines |-> <<>>], [kind |-> "no_response", lines |-> <<>>] }
  \cup { [kind |-> "ok", lines |-> l] : l \in Stdouts \ {<<>>} }

\* The body of the loop over the lines: the date appended, if any.
ParseLine(line) ==
  IF line.kind = "header" THEN None
  ELSE IF line.kind = "digits" /\ line.len = 8
    THEN (IF IsDate(line.value) THEN Some(line.value) ELSE None)
  ELSE IF line.kind = "dashed"
    THEN (IF line.len = 8 /\ IsDate(line.value) THEN Some(line.value) ELSE None)
  ELSE None

RECURSIVE ParseLines(_)
ParseLines(lines) ==
  IF lines = <<>> THEN <<>>
  ELSE ParseLine(Head(lines)) \o ParseLines(Tail(lines))

SeqToSet(seq) == { seq[i] : i \in 1..Len(seq) }

SetMin(S) == CHOOSE x \in S : \A y \in S : x <= y

SetMax(S) == CHOOSE x \in S : \A y \in S : y <= x

\* sorted(list(S))
RECURSIVE SortedList(_)
SortedList(S) ==
  IF S = {} THEN <<>>
  ELSE <<SetMin(S)>> \o SortedList(S \ {SetMin(S)})

\* A variant that keeps the parsed dates as they came.
Unsorted(seq) == seq

\* sorted(list(set(trading_days)))
SortedUnique(seq) == SortedList(SeqToSet(seq))

\* d.startswith(str(year)), for a year of four digits
StartsWithYear(d, year) == YearOf(d) = year

FilterYear(trading_days, year) ==
  SelectSeq(trading_days, LAMBDA d : StartsWithYear(d, year))

\* History only: the answer holds a date of the year: a line of eight digits,
\* plain or with separators, that names a day of the calendar in that year.
HasDateOfYear(resp, year) ==
  /\ resp.kind = "ok"
  /\ \E i \in 1..Len(resp.lines) :
       /\ resp.lines[i].kind \in {"digits", "dashed"}
       /\ resp.lines[i].len = 8
       /\ IsDate(resp.lines[i].value)
       /\ YearOf(resp.lines[i].value) = year

\* The provider's answer as lines 84-112 take it in: how subprocess.run
\* ended, and the parsed dates, sorted and without duplicates.  (dated is
\* history only: the years of which the answer holds a date.)
ProviderAnswer(resp) ==
  [kind |-> resp.kind,
   trading_days |-> IF resp.kind = "ok" THEN SortedUnique(ParseLines(resp.lines)) ELSE <<>>,
   dated |-> { y \in CalYears : HasDateOfYear(resp, y) }]

CalAnswers == { ProviderAnswer(resp) : resp \in CalResponses }

CalKey(symbol, year) == symbol \o "_" \o ToString(year)

EmptyCalFile == [trading_days |-> <<>>, years |-> <<>>, symbols |-> <<>>]

Put(f, k, v) == [x \in DOMAIN f \cup {k} |-> IF x = k THEN v ELSE f[x]]

\* The cache after lines 124-136: the days, the year summary, the symbol's years.
StoreYear(cache, symbol, year, year_trading_days) ==
  LET days == [d \in DOMAIN cache.trading_days \cup SeqToSet(year_trading_days) |->
                 IF d \in SeqToSet(year_trading_days)
                   THEN [symbol |-> symbol, year |-> year]
                   ELSE cache.trading_days[d]]
      summary == [symbol |-> symbol,
                  first_trading_day |-> year_trading_days[1],
                  last_trading_day |-> year_trading_days[Len(year_trading_days)],
                  total_trading_days |-> Len(year_trading_days),
                  trading_days |-> year_trading_days]
      covered == IF symbol \in DOMAIN cache.symbols THEN cache.symbols[symbol] ELSE <<>>
      covered2 == IF year \in SeqToSet(covered) THEN covered
                  ELSE SortedList(SeqToSet(covered) \cup {year})
  IN [trading_days |-> days,
      years |-> Put(cache.years, ToString(year), summary),
      symbols |-> Put(cache.symbols, symbol, covered2)]

CalOutcome(ret, file, fetched, raised) ==
  [ret |-> ret, file |-> file, fetched |-> fetched, raised |-> raised]

\* Lines 84-140, the body of the try.
FetchTradingDays(cache, symbol, year, resp) ==
  IF resp.kind = "raises" THEN CalOutcome(None, cache, TRUE, TRUE)
  ELSE IF resp.kind = "no_response" THEN CalOutcome(None, cache, TRUE, FALSE)
  ELSE IF resp.trading_days = <<>> THEN CalOutcome(None, cache, TRUE, FALSE)
  ELSE
    LET year_trading_days == FilterYear(resp.trading_days, year) IN
    IF year_trading_days = <<>> THEN CalOutcome(None, cache, TRUE, FALSE)
    ELSE CalOutcome(Some(year_trading_days),
                    StoreYear(cache, symbol, year, year_trading_days), TRUE, FALSE)

\* A variant of the try without its except clause.
FetchUncaught(cache, symbol, year, resp) == FetchTradingDays(cache, symbol, year, resp)

\* try: ... except Exception: return None
FetchCaught(cache, symbol, year, resp) ==
  LET out == FetchTradingDays(cache, symbol, year, resp) IN
  IF out.raised THEN CalOutcome(None, cache, TRUE, FALSE) ELSE out

\* year_data.get(field) of cache['years'].get(str(year), {}), None when falsy
YearField(cache, year, field) ==
  IF ToString(year) \in DOMAIN cache.years
    THEN (IF field = "trading_days"
            THEN (IF cache.years[ToString(year)].trading_days = <<>> THEN None
                  ELSE Some(cache.years[ToString(year)].trading_days))
          ELSE IF field = "first_trading_day"
            THEN Some(cache.years[ToString(year)].first_trading_day)
          ELSE Some(cache.years[ToString(year)].last_trading_day))
    ELSE None

get_trading_days_for_year(cache, symbol, year, resp) ==
  IF CalKey(symbol, year) \in DOMAIN cache.symbols
     /\ YearField(cache, year, "trading_days") # None
    THEN CalOutcome(YearField(cache, year, "trading_days"), cache, FALSE, FALSE)
    ELSE FetchCaught(cache, symbol, year, resp)

get_first_trading_day_of_year(cache, symbol, year, resp) ==
  IF YearField(cache, year, "first_trading_day") # None
    THEN CalOutcome(YearField(cache, year, "first_trading_day"), cache, FALSE, FALSE)
    ELSE LET out == get_trading_days_for_year(cache, symbol, year, resp) IN
         CalOutcome(IF out.ret # None THEN Some(out.ret[1][1]) ELSE None,
                    out.file, out.fetched, out.raised)

get_last_trading_day_of_year(cache, symbol, year, resp) ==
  IF YearField(cache, year, "last_trading_day") # None
    THEN CalOutcome(YearField(cache, year, "last_trading_day"), cache, FALSE, FALSE)
    ELSE LET out == get_trading_days_for_year(cache, symbol, year, resp) IN
         CalOutcome(IF out.ret # None THEN Some(out.ret[1][Len(out.ret[1])]) ELSE None,
                    out.file, out.fetched, out.raised)

\* max(day for day in trading_days if day <= today)
MostRecentOf(trading_days, day) ==
  LET available_days == { d \in SeqToSet(trading_days) : d <= day } IN
  IF available_days = {} THEN None
  ELSE Some(CHOOSE x \in available_days : \A y \in available_days : y <= x)

\* The loop of get_first_trading_day_of_quarter, from index i.
RECURSIVE FirstOfQuarterFrom(_, _, _)
FirstOfQuarterFrom(trading_days, i, month) ==
  IF i > Len(trading_days) THEN None
  ELSE IF MonthOf(trading_days[i]) >= month THEN Some(trading_days[i])
  ELSE FirstOfQuarterFrom(trading_days, i + 1, month)

\* A variant that takes the first day after the quarter's first month.
FirstOfQuarterStrict(trading_days, quarter) ==
  LET hits == { i \in 1..Len(trading_days) :
                  MonthOf(trading_days[i]) > (quarter - 1) * 3 + 1 }
  IN IF hits = {} THEN None ELSE Some(trading_days[SetMin(hits)])

FirstOfQuarter(trading_days, quarter) ==
  FirstOfQuarterFrom(trading_days, 1, (quarter - 1) * 3 + 1)

\* The loop of get_last_trading_day_of_quarter, from index i.
RECURSIVE LastOfQuarterFrom(_, _, _, _)
LastOfQuarterFrom(trading_days, i, month, last_day) ==
  IF i > Len(trading_days) THEN last_day
  ELSE LET day == trading_days[i]
           kept == IF MonthOf(day) <= month THEN Some(day) ELSE last_day
       IN IF MonthOf(day) > month THEN kept
          ELSE LastOfQuarterFrom(trading_days, i + 1, month, kept)

LastOfQuarter(trading_days, quarter) ==
  LastOfQuarterFrom(trading_days, 1, quarter * 3, None)

(***************************************************************************)
(* Actions of the trading calendar cache.                                  *)
(***************************************************************************)
\* History only: the symbol's list for the year was stored by an earlier fetch.
FetchedBefore(cache, symbol, year) ==
  /\ symbol \in DOMAIN cache.symbols
  /\ year \in SeqToSet(cache.symbols[symbol])

CalRecord(op, symbol, year, quarter, days, ret, ret2, fetches, known, usable, raised) ==
  [op |-> op, symbol |-> symbol, year |-> year, quarter |-> quarter,
   days |-> days, ret |-> ret, ret2 |-> ret2, fetches |-> fetches,
   known |-> known, usable |-> usable, raised |-> raised]

\* The days the model's clock may show.
Todays == {20220102, 20220401}

InitCal ==
  /\ calFile = EmptyCalFile
  /\ lastCal = CalRecord("", "", 0, 0, None, None, None, 0, FALSE, FALSE, FALSE)

Count(b) == IF b THEN 1 ELSE 0

GetTradingDays(symbol, year, resp) ==
  LET out == get_trading_days_for_year(calFile, symbol, year, resp) IN
  /\ calFile' = out.file
  /\ lastCal' = CalRecord("trading_days", symbol, year, 0, out.ret, None, None,
                          Count(out.fetched), FetchedBefore(calFile, symbol, year),
                          year \in resp.dated, out.raised)
  /\ UNCHANGED notCalVars

\* get_trading_days_range(symbol, year, year): the first day, then the last.
GetTradingDaysRange(symbol, year, resp) ==
  LET first == get_first_trading_day_of_year(calFile, symbol, year, resp) IN
  \E resp2 \in IF YearField(first.file, year, "last_trading_day") # None
                 THEN {resp} ELSE CalAnswers :
    LET last == get_last_trading_day_of_year(first.file, symbol, year, resp2) IN
    /\ calFile' = last.file
    /\ lastCal' = CalRecord("range", symbol, year, 0, None, first.ret, last.ret,
                            Count(first.fetched) + Count(last.fetched),
                            FetchedBefore(calFile, symbol, year),
                            year \in resp.dated \/ year \in resp2.dated,
                            first.raised \/ last.raised)
    /\ UNCHANGED notCalVars

GetMostRecentTradingDay(symbol, now, resp) ==
  LET current_year == YearOf(now)
      out == get_trading_days_for_year(calFile, symbol, current_year, resp)
  IN /\ calFile' = out.file
     /\ lastCal' = CalRecord("most_recent", symbol, current_year, 0, out.ret,
                             IF out.ret = None THEN None
                             ELSE MostRecentOf(out.ret[1], now),
                             None, Count(out.fetched),
                             FetchedBefore(calFile, symbol, current_year),
                             current_year \in resp.dated, out.raised)
     /\ UNCHANGED notCalVars

GetFirstTradingDayOfQuarter(symbol, year, quarter, resp) ==
  LET out == get_trading_days_for_year(calFile, symbol, year, resp) IN
  /\ calFile' = out.file
  /\ lastCal' = CalRecord("first_of_quarter", symbol, year, quarter, out.ret,
                          IF out.ret = None THEN None
                          ELSE FirstOfQuarter(out.ret[1], quarter),
                          None, Count(out.fetched), FetchedBefore(calFile, symbol, year),
                          year \in resp.dated, out.raised)
  /\ UNCHANGED notCalVars

GetLastTradingDayOfQuarter(symbol, year, quarter, resp) ==
  LET out == get_trading_days_for_year(calFile, symbol, year, resp) IN
  /\ calFile' = out.file
  /\ lastCal' = CalRecord("last_of_quarter", symbol, year, quarter, out.ret,
                          IF out.ret = None THEN None
                          ELSE LastOfQuarter(out.ret[1], quarter),
                          None, Count(out.fetched), FetchedBefore(calFile, symbol, year),
                          year \in resp.dated, out.raised)
  /\ UNCHANGED notCalVars

NextCal ==
  \/ \E symbol \in CalSymbols, year \in CalYears, resp \in CalAnswers :
       GetTradingDays(symbol, year, resp)
  \/ \E symbol \in CalSymbols, year \in CalYears, resp \in CalAnswers :
       GetTradingDaysRange(symbol, year, resp)
  \/ \E symbol \in CalSymbols, now \in Todays, resp \in CalAnswers :
       GetMostRecentTradingDay(symbol, now, resp)
  \/ \E symbol \in CalSymbols, year \in CalYears, quarter \in Quarters,
        resp \in CalAnswers :
       GetFirstTradingDayOfQuarter(symbol, year, quarter, resp)
  \/ \E symbol \in CalSymbols, year \in CalYears, quarter \in Quarters,
        resp \in CalAnswers :
       GetLastTradingDayOfQuarter(symbol, year, quarter, resp)

(***************************************************************************)
(*                            ITM CALL FILTER                              *)
(*                                                                         *)
(* Strikes are thousandths of a dollar.  stock_price is held in the same   *)
(* unit, so that it stands for stock_price * 1000 of the code; rounding to *)
(* the nearest float is monotone and every strike is a float, so a strike  *)
(* below the rounded product is below the exact one.                       *)
(***************************************************************************)
ItmStrikes == {145000, 149000, 150000}
StockPrices == {146000, 150000}

\* tick[5], tick[10] and tick[14]; 0 stands for every falsy value.
Quote(close, bid, ask) == [close |-> close, bid |-> bid, ask |-> ask]

Quotes == { Quote(5, 0, 0), Quote(0, 5, 6), Quote(0, 5, 0), Quote(0, 0, 0) }

(***************************************************************************)
(* An element of bulk_data['response']:                                    *)
(*   shape  "ok"          a contract and a first tick of 17 fields         *)
(*          "no_ticks"    no ticks (or no contract)                        *)
(*          "short_tick"  a first tick of fewer than 17 fields             *)
(*          "text_strike" a strike that is a string                        *)
(***************************************************************************)
ContractData(shape, strike, right, quote) ==
  [shape |-> shape, strike |-> strike, right |-> right, quote |-> quote]

ContractDatas ==
  { ContractData("ok", k, "C", q) : k \in ItmStrikes, q \in Quotes }
  \cup { ContractData("ok", 145000, "P", Quote(5, 0, 0)) }
  \cup { ContractData(sh, 145000, "C", Quote(5, 0, 0)) :
           sh \in {"no_ticks", "short_tick", "text_strike"} }

Responses == UNION { [1..n -> ContractDatas] : n \in 0..MaxChain }

\* bulk_data: None or without 'response', or with its response.
NoBulk == [has_response |-> FALSE, response |-> <<>>]

BulkDatas == {NoBulk} \cup { [has_response |-> TRUE, response |-> r] : r \in Responses }

\* A variant that also takes the strike at the spot price.
StrikeAtOrBelowSpot(strike, stock_price_millidollars) ==
  strike <= stock_price_millidollars

\* strike < stock_price_millidollars
StrikeBelowSpot(strike, stock_price_millidollars) ==
  strike < stock_price_millidollars

Abs(x) == IF x < 0 THEN 0 - x ELSE x

\* The body of the loop: the entry appended to valid_calls, if any.
ValidCall(contract_data, stock_price_millidollars) ==
  IF contract_data.shape \in {"no_ticks", "short_tick"} THEN None
  ELSE IF contract_data.right # "C" THEN None
  ELSE IF contract_data.shape = "text_strike" THEN None
  ELSE IF StrikeBelowSpot(contract_data.strike, stock_price_millidollars)
          /\ (contract_data.quote.close > 0
              \/ (contract_data.quote.bid > 0 /\ contract_data.quote.ask > 0))
    THEN Some([strike |-> contract_data.strike,
               distance |-> Abs(contract_data.strike - stock_price_millidollars),
               close |-> contract_data.quote.close,
               bid |-> contract_data.quote.bid,
               ask |-> contract_data.quote.ask,
               data_quality |-> IF contract_data.quote.close > 0
                                  THEN "excellent" ELSE "good"])
  ELSE None

RECURSIVE ValidCalls(_, _)
ValidCalls(response, stock_price_millidollars) ==
  IF response = <<>> THEN <<>>
  ELSE ValidCall(Head(response), stock_price_millidollars)
         \o ValidCalls(Tail(response), stock_price_millidollars)

\* list.sort(key=distance) is stable: x goes behind the entries that are not
\* farther than it.
RECURSIVE InsertByDistance(_, _)
InsertByDistance(sorted, x) ==
  IF sorted = <<>> THEN <<x>>
  ELSE IF sorted[Len(sorted)].distance <= x.distance THEN Append(sorted, x)
  ELSE Append(InsertByDistance(SubSeq(sorted, 1, Len(sorted) - 1), x),
              sorted[Len(sorted)])

RECURSIVE SortByDistanceFrom(_, _, _)
SortByDistanceFrom(calls, i, sorted) ==
  IF i > Len(calls) THEN sorted
  ELSE SortByDistanceFrom(calls, i + 1, InsertByDistance(sorted, calls[i]))

SortByDistance(calls) == SortByDistanceFrom(calls, 1, <<>>)

filter_itm_calls_from_bulk(bulk, price) ==
  IF ~bulk.has_response THEN <<>>
  ELSE SortByDistance(ValidCalls(bulk.response, price))

\* Before the filter is called, with no inputs chosen.
InitItm ==
  /\ bulk_data = NoBulk
  /\ stock_price = 0
  /\ valid_calls = None

\* Before the filter is called, for each of its inputs.
InitItmInputs ==
  /\ bulk_data \in BulkDatas
  /\ stock_price \in StockPrices
  /\ valid_calls = None

FilterItm ==
  /\ valid_calls = None
  /\ valid_calls' = Some(filter_itm_calls_from_bulk(bulk_data, stock_price))
  /\ UNCHANGED <<bulk_data, stock_price, notItmVars>>

NextItm == FilterItm

(***************************************************************************)
(*                        OPTION SELECTION ENGINE                          *)
(*                                                                         *)
(* find_optimal_leaps_annual_january and execute_single_quarterly_trade    *)
(* with the functions they call.  Dates are the numbers of their YYYYMMDD  *)
(* strings, strikes are thousandths of a dollar, option prices are cents   *)
(* (the arithmetic on them is exact, where the code's is binary floating   *)
(* point).                                                                 *)
(***************************************************************************)
\* date.toordinal(): the days from 0001-01-01, that day being 1.
DaysBeforeYear(y) ==
  365 * (y - 1) + ((y - 1) \div 4) - ((y - 1) \div 100) + ((y - 1) \div 400)

RECURSIVE DaysBeforeMonth(_, _)
DaysBeforeMonth(y, m) ==
  IF m = 1 THEN 0 ELSE DaysBeforeMonth(y, m - 1) + DaysInMonth(y, m - 1)

ToOrdinal(d) ==
  DaysBeforeYear(YearOf(d)) + DaysBeforeMonth(YearOf(d), MonthOf(d)) + DayOf(d)

\* (a - b).days
DaysBetween(a, b) == ToOrdinal(a) - ToOrdinal(b)

\* d + relativedelta(months=n): the day of the month is cut to the month's end.
AddMonths(d, n) ==
  LET months == YearOf(d) * 12 + (MonthOf(d) - 1) + n
      y == months \div 12
      m == (months % 12) + 1
      last == DaysInMonth(y, m)
  IN y * 10000 + m * 100 + (IF DayOf(d) > last THEN last ELSE DayOf(d))

\* The splits table of detect_stock_split.
Splits ==
  [symbol \in {"GOOG"} |-> [split_date \in {20220715} |-> [ratio |-> 20]]]

NoSplit == [has_split |-> FALSE, split_date |-> 0, split_ratio |-> 1]

detect_stock_split(symbol, entry_date, exit_date) ==
  IF symbol \in DOMAIN Splits
     /\ \E split_date \in DOMAIN Splits[symbol] :
          entry_date <= split_date /\ split_date <= exit_date
    THEN LET split_date == CHOOSE sd \in DOMAIN Splits[symbol] :
                             entry_date <= sd /\ sd <= exit_date
         IN [has_split |-> TRUE, split_date |-> split_date,
             split_ratio |-> Splits[symbol][split_date].ratio]
    ELSE NoSplit

\* The answer of api_call when 'response' is missing, and one with a response.
NoData == [has_response |-> FALSE, response |-> <<>>]

Data(response) == [has_response |-> TRUE, response |-> response]

\* sorted(...) of a list of dates, duplicates kept.
RECURSIVE InsertSorted(_, _)
InsertSorted(sorted, x) ==
  IF sorted = <<>> THEN <<x>>
  ELSE IF sorted[Len(sorted)] <= x THEN Append(sorted, x)
  ELSE Append(InsertSorted(SubSeq(sorted, 1, Len(sorted) - 1), x), sorted[Len(sorted)])

RECURSIVE SortedFrom(_, _, _)
SortedFrom(seq, i, sorted) ==
  IF i > Len(seq) THEN sorted
  ELSE SortedFrom(seq, i + 1, InsertSorted(sorted, seq[i]))

Sorted(seq) == SortedFrom(seq, 1, <<>>)

\* A variant that leaves the candidates in the order of the answer.
JanuaryUnsorted(data, year, entry_date) ==
  IF ~data.has_response THEN <<>>
  ELSE SelectSeq(data.response,
                 LAMBDA exp : /\ IsDate(exp)
                              /\ YearOf(exp) = year + 1
                              /\ MonthOf(exp) = 1
                              /\ exp > entry_date)

\* get_january_expirations, data being the answer of list/expirations.
get_january_expirations(data, year, entry_date) ==
  IF ~data.has_response THEN <<>>
  ELSE Sorted(SelectSeq(data.response,
                        LAMBDA exp : /\ IsDate(exp)
                                     /\ YearOf(exp) = year + 1
                                     /\ MonthOf(exp) = 1
                                     /\ exp > entry_date))

\* A row of the answer of list/contracts: its length and its second field.
ContractRow(len, exp) == [len |-> len, exp |-> exp]

\* get_expirations_available_on_date, data being the answer of list/contracts.
get_expirations_available_on_date(data) ==
  IF ~data.has_response THEN <<>>
  ELSE SortedList({ data.response[i].exp : i \in
         { j \in 1..Len(data.response) :
             data.response[j].len >= 2 /\ IsDate(data.response[j].exp) } })

\* min(available_expirations, key=...) from index i: the first of the nearest.
RECURSIVE ClosestFrom(_, _, _, _)
ClosestFrom(available_expirations, target_date, i, best) ==
  IF i > Len(available_expirations) THEN best
  ELSE ClosestFrom(available_expirations, target_date, i + 1,
         IF Abs(DaysBetween(available_expirations[i], target_date))
              < Abs(DaysBetween(best, target_date))
           THEN available_expirations[i] ELSE best)

\* A variant that takes the last of the nearest.
find_last_closest(available_expirations, target_date) ==
  IF available_expirations = <<>> THEN None
  ELSE LET nearest == { i \in 1..Len(available_expirations) :
             \A j \in 1..Len(available_expirations) :
               Abs(DaysBetween(available_expirations[i], target_date))
                 <= Abs(DaysBetween(available_expirations[j], target_date)) }
       IN Some(available_expirations[SetMax(nearest)])

find_closest_expiration_date(available_expirations, target_date) ==
  IF available_expirations = <<>> THEN None
  ELSE Some(ClosestFrom(available_expirations, target_date, 2, available_expirations[1]))

(***************************************************************************)
(* An element of the 10:00 bulk quotes: shape "ok" (a contract and a first *)
(* tick of 8 fields or more), "no_ticks" or "short_tick"; bid is tick[3]   *)
(* and ask is tick[7], 0 standing for every falsy value.                   *)
(***************************************************************************)
QuoteData(shape, strike, right, bid, ask) ==
  [shape |-> shape, strike |-> strike, right |-> right, bid |-> bid, ask |-> ask]

\* A variant that prefers the bid.
BidFirst(contract_data) ==
  IF contract_data.bid > 0 THEN Some(contract_data.bid)
  ELSE IF contract_data.ask > 0 THEN Some(contract_data.ask)
  ELSE None

\* Lines 207-214: the price a matching element gives, if any.
AskOrBid(contract_data) ==
  IF contract_data.ask > 0 THEN Some(contract_data.ask)
  ELSE IF contract_data.bid > 0 THEN Some(contract_data.bid)
  ELSE None

\* The loop of extract_precise_entry_price_from_bulk, from index i.
RECURSIVE EntryPriceFrom(_, _, _)
EntryPriceFrom(response, target_strike, i) ==
  IF i > Len(response) THEN None
  ELSE IF /\ response[i].shape = "ok"
          /\ response[i].strike = target_strike
          /\ response[i].right = "C"
          /\ AskOrBid(response[i]) # None
    THEN AskOrBid(response[i])
  ELSE EntryPriceFrom(response, target_strike, i + 1)

extract_precise_entry_price_from_bulk(bulk_quotes, target_strike) ==
  IF ~bulk_quotes.has_response THEN None
  ELSE EntryPriceFrom(bulk_quotes.response, target_strike, 1)

\* The first record of the end-of-day answer: 17 fields or fewer, its close
\* (field 5) and its bid (field 10), 0 standing for every falsy value.
ExitRecord(shape, close, bid) == [shape |-> shape, close |-> close, bid |-> bid]

\* A variant that takes a record without a positive price for no record.
exit_price_positive_only(exit_data) ==
  IF ~exit_data.has_response \/ exit_data.response = <<>> THEN None
  ELSE LET exit_record == exit_data.response[1] IN
       IF exit_record.shape # "ok" THEN None
       ELSE IF exit_record.close > 0 THEN Some(exit_record.close)
       ELSE IF exit_record.bid > 0 THEN Some(exit_record.bid)
       ELSE None

\* get_exit_price_individual, exit_data being the answer of hist/option/eod.
get_exit_price_individual(exit_data) ==
  IF ~exit_data.has_response \/ exit_data.response = <<>> THEN None
  ELSE LET exit_record == exit_data.response[1] IN
       IF exit_record.shape # "ok" THEN None
       ELSE IF exit_record.close > 0 THEN Some(exit_record.close)
       ELSE IF exit_record.bid > 0 THEN Some(exit_record.bid)
       ELSE IF exit_record.close = 0 THEN Some(0)
       ELSE None

\* An element of the bulk Greeks: its strike, and a first tick of 34 fields
\* ("ok") or fewer ("short_tick").
GreeksData(shape, strike, delta) == [shape |-> shape, strike |-> strike, delta |-> delta]

RECURSIVE GreeksFrom(_, _, _)
GreeksFrom(response, target_strike, i) ==
  IF i > Len(response) THEN None
  ELSE IF response[i].strike = target_strike /\ response[i].shape = "ok"
    THEN Some([delta |-> response[i].delta])
  ELSE GreeksFrom(response, target_strike, i + 1)

\* A variant that reports Greeks of zero where there are none.
greeks_defaulted(bulk_greeks, target_strike) ==
  IF ~bulk_greeks.has_response THEN Some([delta |-> 0])
  ELSE GreeksFrom(bulk_greeks.response, target_strike, 1)

extract_greeks_from_bulk(bulk_greeks, target_strike) ==
  IF ~bulk_greeks.has_response THEN None
  ELSE GreeksFrom(bulk_greeks.response, target_strike, 1)

(***************************************************************************)
(* The market-data provider, as far as a trade asks it:                    *)
(*   expirations  the answer of list/expirations                           *)
(*   contracts    the answer of list/contracts on the entry date           *)
(*   eod          expiration -> the bulk end-of-day answer, entry date     *)
(*   quotes       expiration -> the bulk 10:00 quotes, entry date          *)
(*   exit         (expiration, strike) -> the end-of-day answer on the     *)
(*                exit date                                                *)
(*   greeks       date -> the bulk Greeks of that date                     *)
(* A key that is missing has the answer without a response.                *)
(***************************************************************************)
Answer(f, k) == IF k \in DOMAIN f THEN f[k] ELSE NoData

\* History: a call made to the provider.
ApiCall(endpoint, exp, strike) == [endpoint |-> endpoint, exp |-> exp, strike |-> strike]

\* The dictionary a trade returns.  (return_pct and months_to_exp, quotients
\* of fields below, are left out; days_to_exp is the dividend of the latter.)
Trade(strategy, entry_date, exit_date, expiration, days_to_exp, original_strike, exit_strike, entry_price, exit_price, split_info, entry_greeks, exit_greeks, api_calls_used, deviation_days) ==
  [strategy |-> strategy, entry_date |-> entry_date, exit_date |-> exit_date,
   expiration |-> expiration, days_to_exp |-> days_to_exp,
   original_strike |-> original_strike, exit_strike |-> exit_strike,
   entry_price |-> entry_price, exit_price |-> exit_price,
   pnl_per_contract |-> exit_price - entry_price,
   hold_days |-> DaysBetween(exit_date, entry_date),
   split_info |-> split_info, entry_greeks |-> entry_greeks,
   exit_greeks |-> exit_greeks, api_calls_used |-> api_calls_used,
   deviation_days |-> deviation_days]

\* What a call of the engine gave: its return value and the calls it made.
TradeOutcome(ret, calls) == [ret |-> ret, calls |-> calls]

\* A variant that looks the exit up under the entry strike.
SameStrike(original_strike, split_info) == original_strike

\* Lines 275-277 and 393-395.
ExitStrike(original_strike, split_info) ==
  IF split_info.has_split THEN original_strike \div split_info.split_ratio
  ELSE original_strike

\* Lines 288-289 and 403-404.
SplitAdjusted(exit_price, split_info) ==
  IF split_info.has_split THEN exit_price * split_info.split_ratio ELSE exit_price

\* Lines 269-309 and 388-425, the same in both strategies: from the selected
\* call to the trade.  calls are the calls made before.
PriceTrade(th, strategy, entry_date, exit_date, exp_date, original_strike, split_info, calls, deviation_days) ==
  LET entry_price == extract_precise_entry_price_from_bulk(
                       Answer(th.quotes, exp_date), original_strike)
      calls1 == Append(calls, ApiCall("bulk_at_time", exp_date, 0))
      exit_strike == ExitStrike(original_strike, split_info)
      exit_price == get_exit_price_individual(Answer(th.exit, <<exp_date, exit_strike>>))
      calls2 == Append(calls1, ApiCall("eod", exp_date, exit_strike))
      calls3 == calls2 \o <<ApiCall("greeks", exp_date, 0), ApiCall("greeks", exp_date, 0)>>
  IN IF entry_price = None THEN TradeOutcome(None, calls1)
     ELSE IF exit_price = None THEN TradeOutcome(None, calls2)
     ELSE TradeOutcome(
            Some(Trade(strategy, entry_date, exit_date, exp_date,
                       DaysBetween(exp_date, entry_date), original_strike, exit_strike,
                       entry_price[1], SplitAdjusted(exit_price[1], split_info), split_info,
                       extract_greeks_from_bulk(Answer(th.greeks, entry_date),
                                                original_strike),
                       extract_greeks_from_bulk(Answer(th.greeks, exit_date),
                                                exit_strike),
                       IF strategy = "annual" THEN Len(calls3) - 1 ELSE 0,
                       deviation_days)),
            calls3)

\* The body of the loop of find_optimal_leaps_annual_january for one candidate.
ProbeExpiration(th, entry_date, exit_date, stock_price_millidollars, split_info, exp_date, calls) ==
  LET entry_bulk_eod == Answer(th.eod, exp_date)
      calls1 == Append(calls, ApiCall("bulk_eod", exp_date, 0))
      valid_itm_calls == filter_itm_calls_from_bulk(entry_bulk_eod, stock_price_millidollars)
  IN IF ~entry_bulk_eod.has_response THEN TradeOutcome(None, calls1)
     ELSE IF valid_itm_calls = <<>> THEN TradeOutcome(None, calls1)
     ELSE PriceTrade(th, "annual", entry_date, exit_date, exp_date,
                     valid_itm_calls[1].strike, split_info, calls1, 0)

\* The loop of find_optimal_leaps_annual_january, from candidate i.
RECURSIVE ProbeFrom(_, _, _, _, _, _, _, _)
ProbeFrom(th, entry_date, exit_date, stock_price_millidollars, split_info, january_exps, i, calls) ==
  IF i > Len(january_exps) THEN TradeOutcome(None, calls)
  ELSE LET probe == ProbeExpiration(th, entry_date, exit_date,
                                    stock_price_millidollars, split_info,
                                    january_exps[i], calls)
       IN IF probe.ret # None THEN probe
          ELSE ProbeFrom(th, entry_date, exit_date, stock_price_millidollars,
                         split_info, january_exps, i + 1, probe.calls)

find_optimal_leaps_annual_january(th, symbol, year, entry_date, exit_date, stock_price_millidollars) ==
  LET january_exps == get_january_expirations(th.expirations, year, entry_date)
      calls == <<ApiCall("expirations", 0, 0)>>
  IN IF january_exps = <<>> THEN TradeOutcome(None, calls)
     ELSE ProbeFrom(th, entry_date, exit_date, stock_price_millidollars,
                    detect_stock_split(symbol, entry_date, exit_date),
                    january_exps, 1, calls)

\* A variant that takes the nearest call whatever strike is pinned.
SelectNearest(valid_itm_calls, fixed_strike) == Some(valid_itm_calls[1])

\* Lines 379-385: the call of the pinned strike, or the nearest call.
SelectCall(valid_itm_calls, fixed_strike) ==
  IF fixed_strike # None
    THEN LET hits == { i \in 1..Len(valid_itm_calls) :
                         valid_itm_calls[i].strike = fixed_strike[1] }
         IN IF hits = {} THEN None ELSE Some(valid_itm_calls[SetMin(hits)])
    ELSE Some(valid_itm_calls[1])

\* Lines 347 and 355: the expirations at least 365 days after the entry.
LeapsExpirations(all_available_expirations, entry_date) ==
  SelectSeq(all_available_expirations,
            LAMBDA exp : DaysBetween(exp, entry_date) >= 365)

execute_single_quarterly_trade(th, symbol, entry_date, exit_date, stock_price_millidollars, fixed_strike) ==
  LET target_15_months == AddMonths(entry_date, 15)
      all_available_expirations == get_expirations_available_on_date(th.contracts)
      calls == <<ApiCall("contracts", 0, 0)>>
      leaps_expirations == LeapsExpirations(all_available_expirations, entry_date)
      closest == find_closest_expiration_date(leaps_expirations, target_15_months)
  IN IF all_available_expirations = <<>> THEN TradeOutcome(None, calls)
     ELSE IF leaps_expirations = <<>> THEN TradeOutcome(None, calls)
     ELSE IF closest = None THEN TradeOutcome(None, calls)
     ELSE
       LET exp_date == closest[1]
           split_info == detect_stock_split(symbol, entry_date, exit_date)
           entry_bulk_eod == Answer(th.eod, exp_date)
           calls1 == Append(calls, ApiCall("bulk_eod", exp_date, 0))
           valid_itm_calls == filter_itm_calls_from_bulk(entry_bulk_eod,
                                                         stock_price_millidollars)
       IN IF ~entry_bulk_eod.has_response THEN TradeOutcome(None, calls1)
          ELSE IF valid_itm_calls = <<>> THEN TradeOutcome(None, calls1)
          ELSE IF SelectCall(valid_itm_calls, fixed_strike) = None
            THEN TradeOutcome(None, calls1)
          ELSE PriceTrade(th, "quarterly", entry_date, exit_date, exp_date,
                          SelectCall(valid_itm_calls, fixed_strike)[1].strike,
                          split_info, calls1,
                          Abs(DaysBetween(exp_date, target_15_months)))

(***************************************************************************)
(* The inputs of the engine: the provider's answers and the call made.     *)
(***************************************************************************)
TradeSymbols == {"GOOG", "AAPL"}
TradeEntryDate == 20220103
TradeExitDates == {20220331, 20221230}
TradeStockPrice == 150000

TradeCall(strategy, symbol, year, entry_date, exit_date, stock_price_millidollars, fixed_strike) ==
  [strategy |-> strategy, symbol |-> symbol, year |-> year,
   entry_date |-> entry_date, exit_date |-> exit_date,
   stock_price |-> stock_price_millidollars, fixed_strike |-> fixed_strike]

Theta(expirations, contracts, eod, quotes, exit, greeks) ==
  [expirations |-> expirations, contracts |-> contracts, eod |-> eod,
   quotes |-> quotes, exit |-> exit, greeks |-> greeks]

TradeCase(th, call) == [theta |-> th, call |-> call]

\* The expirations the provider lists.
JanuaryExpirations == {20230106, 20230113, 20230120}
ListedExpirations == JanuaryExpirations \cup {20230217}
ContractExpirations == {20221216, 20230103, 20230324, 20230413, 20230616}

\* Bulk end-of-day answers of the entry date: none, no call in the money,
\* one eligible call, two eligible calls with the farther one first.
EodNoItm == Data(<<ContractData("ok", 150000, "C", Quote(5, 0, 0))>>)
EodOne == Data(<<ContractData("ok", 145000, "C", Quote(5, 0, 0))>>)
EodTwo == Data(<<ContractData("ok", 145000, "C", Quote(5, 0, 0)),
                 ContractData("ok", 149000, "C", Quote(0, 5, 6))>>)
EodDatas == {NoData, EodNoItm, EodOne, EodTwo}

\* The strikes a trade of these chains may look up, before and after a split.
TradedStrikes == {145000, 149000}
ExitStrikes == TradedStrikes \cup { k \div 20 : k \in TradedStrikes }

QuoteDatas ==
  { QuoteData("ok", 149000, "C", 1200, 1250), QuoteData("ok", 149000, "C", 1200, 0),
    QuoteData("ok", 149000, "C", 0, 0), QuoteData("ok", 149000, "P", 1100, 1150),
    QuoteData("ok", 145000, "C", 1500, 1550), QuoteData("short_tick", 149000, "C", 1200, 1250),
    QuoteData("no_ticks", 149000, "C", 1200, 1250) }

GoodQuotes == Data(<<QuoteData("ok", 145000, "C", 1500, 1550),
                     QuoteData("ok", 149000, "C", 1200, 1250)>>)

BulkQuotes ==
  {NoData} \cup { Data(r) : r \in UNION { [1..n -> QuoteDatas] : n \in 0..MaxQuotes } }

ExitDatas ==
  { NoData, Data(<<>>), Data(<<ExitRecord("short", 900, 800)>>),
    Data(<<ExitRecord("ok", 900, 800)>>), Data(<<ExitRecord("ok", 0, 800)>>),
    Data(<<ExitRecord("ok", 0, 0)>>) }

\* End-of-day answers of the exit date that tell the strike looked up.
ExitByStrike(expirations) ==
  [key \in expirations \X ExitStrikes |->
     Data(<<ExitRecord("ok", key[2] \div 100, 0)>>)]

GreeksDatas ==
  { NoData, Data(<<GreeksData("ok", 145000, 80), GreeksData("ok", 149000, 70),
                   GreeksData("short_tick", 7450, 60)>>) }

\* The same answer for every key.
Always(keys, data) == [key \in keys |-> data]

(***************************************************************************)
(* Annual cases: an answer of list/expirations and a dataset for each      *)
(* January expiration, complete or lacking one of its parts.               *)
(***************************************************************************)
DatasetKinds == {"no_eod", "no_itm", "no_entry", "no_exit", "worthless", "valid"}

DatasetEod(kind) ==
  IF kind = "no_eod" THEN NoData ELSE IF kind = "no_itm" THEN EodNoItm ELSE EodTwo

DatasetQuotes(kind) ==
  IF kind = "no_entry" THEN Data(<<QuoteData("ok", 149000, "C", 0, 0)>>) ELSE GoodQuotes

DatasetExit(kind) ==
  IF kind = "no_exit" THEN NoData
  ELSE IF kind = "worthless" THEN Data(<<ExitRecord("ok", 0, 0)>>)
  ELSE Data(<<ExitRecord("ok", 900, 800)>>)

AnnualTheta(expirations, kinds, greeks) ==
  Theta(expirations, NoData,
        [exp \in DOMAIN kinds |-> DatasetEod(kinds[exp])],
        [exp \in DOMAIN kinds |-> DatasetQuotes(kinds[exp])],
        [key \in (DOMAIN kinds) \X ExitStrikes |-> DatasetExit(kinds[key[1]])],
        Always({TradeEntryDate} \cup TradeExitDates, greeks))

ExpirationLists ==
  {NoData} \cup { Data(r) : r \in UNION { [1..n -> ListedExpirations] : n \in 0..MaxExps } }

AnnualCases ==
  { TradeCase(AnnualTheta(expirations, kinds, NoData),
              TradeCall("annual", "GOOG", 2022, TradeEntryDate, 20221230,
                        TradeStockPrice, None)) :
      expirations \in ExpirationLists, kinds \in [JanuaryExpirations -> DatasetKinds] }
  \cup
  { TradeCase(Theta(Data(<<20240119, 20230120>>), NoData, Always(JanuaryExpirations, eod),
                    Always(JanuaryExpirations, GoodQuotes),
                    ExitByStrike(JanuaryExpirations),
                    Always({TradeEntryDate} \cup TradeExitDates, greeks)),
              TradeCall("annual", symbol, 2022, TradeEntryDate, exit_date,
                        TradeStockPrice, None)) :
      eod \in EodDatas, greeks \in GreeksDatas, symbol \in TradeSymbols,
      exit_date \in TradeExitDates }

(***************************************************************************)
(* Quarterly cases: the listed contracts; the chain and the pinned strike; *)
(* the 10:00 quotes and the end-of-day answer of the exit date.            *)
(***************************************************************************)
ContractRows ==
  { ContractRow(4, exp) : exp \in ContractExpirations }
  \cup { ContractRow(4, 20231301), ContractRow(1, 20230616) }

ContractLists ==
  {NoData} \cup { Data(r) : r \in UNION { [1..n -> ContractRows] : n \in 0..MaxRows } }

FixedStrikes == {None, Some(140000), Some(145000), Some(149000)}

QuarterlyCases ==
  { TradeCase(Theta(NoData, contracts, Always(ContractExpirations, EodTwo),
                    Always(ContractExpirations, GoodQuotes),
                    ExitByStrike(ContractExpirations),
                    Always({TradeEntryDate} \cup TradeExitDates, NoData)),
              TradeCall("quarterly", "GOOG", 2022, TradeEntryDate, 20220331,
                        TradeStockPrice, None)) :
      contracts \in ContractLists }
  \cup
  { TradeCase(Theta(NoData, Data(<<ContractRow(4, 20230324)>>),
                    Always(ContractExpirations, eod),
                    Always(ContractExpirations, GoodQuotes),
                    ExitByStrike(ContractExpirations),
                    Always({TradeEntryDate} \cup TradeExitDates, greeks)),
              TradeCall("quarterly", symbol, 2022, TradeEntryDate, exit_date,
                        TradeStockPrice, fixed_strike)) :
      eod \in EodDatas, greeks \in GreeksDatas, symbol \in TradeSymbols,
      exit_date \in TradeExitDates, fixed_strike \in FixedStrikes }
  \cup
  { TradeCase(Theta(NoData, Data(<<ContractRow(4, 20230324)>>),
                    Always(ContractExpirations, EodTwo),
                    Always(ContractExpirations, quotes),
                    Always(ContractExpirations \X ExitStrikes, exit),
                    Always({TradeEntryDate} \cup TradeExitDates, NoData)),
              TradeCall("quarterly", "GOOG", 2022, TradeEntryDate, exit_date,
                        TradeStockPrice, None)) :
      quotes \in BulkQuotes, exit \in ExitDatas, exit_date \in TradeExitDates }

TradeCases == AnnualCases \cup QuarterlyCases

NoTheta == Theta(NoData, NoData, <<>>, <<>>, <<>>, <<>>)

NoTradeCall == TradeCall("", "", 0, 0, 0, 0, None)

\* Before the engine is called, with no inputs chosen.
InitTrade ==
  /\ theta = NoTheta
  /\ trade_in = NoTradeCall
  /\ trade_out = None

\* Before the engine is called, for each of its cases.
InitTradeCases ==
  /\ \E c \in TradeCases : theta = c.theta /\ trade_in = c.call
  /\ trade_out = None

AnnualJanuary ==
  /\ trade_out = None
  /\ trade_in.strategy = "annual"
  /\ trade_out' = Some(find_optimal_leaps_annual_january(
                         theta, trade_in.symbol, trade_in.year, trade_in.entry_date,
                         trade_in.exit_date, trade_in.stock_price))
  /\ UNCHANGED <<theta, trade_in, notTradeVars>>

QuarterlyTrade ==
  /\ trade_out = None
  /\ trade_in.strategy = "quarterly"
  /\ trade_out' = Some(execute_single_quarterly_trade(
                         theta, trade_in.symbol, trade_in.entry_date,
                         trade_in.exit_date, trade_in.stock_price,
                         trade_in.fixed_strike))
  /\ UNCHANGED <<theta, trade_in, notTradeVars>>

NextTrade == AnnualJanuary \/ QuarterlyTrade

(***************************************************************************)
(*                     THE COMPOUNDING ORCHESTRATOR                        *)
(*                  src/scripts/run_gemini_backtest.py                     *)
(* Capital, costs and proceeds are in cents; an option price is in cents   *)
(* per share, as in the engine above.  return_pct, a quotient of the       *)
(* capitals below, is left out of the results.                             *)
(***************************************************************************)
COMMISSION_PER_CONTRACT == 35

\* What a run is answered: q_dates, the calendar's first trading day, last
\* trading days of quarters 1 to 3 and last (or most recent) trading day,
\* None where it has none; the stock price of each date, None where the price
\* service has none; the provider's answers to a trade entered on each date.
Market(q_dates, stock_prices, thetas) ==
  [q_dates |-> q_dates, stock_price |-> stock_prices, theta |-> thetas]

RunCall(strategy, year, starting_capital) ==
  [strategy |-> strategy, year |-> year, starting_capital |-> starting_capital]

\* The dictionary a run returns.
RunResult(year, strategy, final_capital) ==
  [year |-> year, strategy |-> strategy, final_capital |-> final_capital]

\* What a run gave: its return value and, as history, the trades it settled.
RunOutcome(ret, trades) == [ret |-> ret, trades |-> trades]

\* Lines 84-91 and 172-175.
ContractMultiplier(split_info) ==
  IF split_info.has_split THEN 100 * split_info.split_ratio ELSE 100

\* Lines 69-98 and 156-182, the same in both strategies: the trade the engine
\* returned, sized and settled with the capital at hand; None when skipped.
SettleTrade(available_capital, trade_details, entry_date, exit_date) ==
  LET entry_price == trade_details.entry_price
      cost_per_contract == (entry_price * 100) + COMMISSION_PER_CONTRACT
      num_contracts == available_capital \div cost_per_contract
      exit_price == trade_details.exit_price
      split_info == detect_stock_split("GOOG", entry_date, exit_date)
      contract_multiplier == ContractMultiplier(split_info)
      total_cost == num_contracts * cost_per_contract
      leftover_cash == available_capital - total_cost
      sale_proceeds == (num_contracts * exit_price * contract_multiplier)
                         - (num_contracts * COMMISSION_PER_CONTRACT)
  IN IF entry_price <= 0 THEN None
     ELSE IF num_contracts = 0 THEN None
     ELSE Some([entry_date |-> entry_date, exit_date |-> exit_date,
                num_contracts |-> num_contracts, entry_price |-> entry_price,
                exit_price |-> exit_price, split_info |-> split_info,
                total_cost |-> total_cost, leftover_cash |-> leftover_cash,
                sale_proceeds |-> sale_proceeds,
                capital |-> sale_proceeds + leftover_cash])

analyze_year_compounding_annual(mk, year, starting_capital) ==
  LET entry_date == mk.q_dates[1]
      exit_date == mk.q_dates[5]
  IN IF entry_date = None \/ exit_date = None THEN RunOutcome(None, <<>>)
     ELSE LET stock_price_of_entry == mk.stock_price[entry_date[1]]
          IN IF stock_price_of_entry = None THEN RunOutcome(None, <<>>)
     ELSE LET option_details ==
                find_optimal_leaps_annual_january(
                  mk.theta[entry_date[1]], "GOOG", year, entry_date[1],
                  exit_date[1], stock_price_of_entry[1]).ret
          IN IF option_details = None THEN RunOutcome(None, <<>>)
     ELSE LET settled == SettleTrade(starting_capital, option_details[1],
                                     entry_date[1], exit_date[1])
          IN IF settled = None THEN RunOutcome(None, <<>>)
             ELSE RunOutcome(
                    Some(RunResult(year, "Annual Compounding", settled[1].capital)),
                    <<settled[1]>>)

\* The loop of analyze_year_compounding_quarterly from quarter q_num on.
RECURSIVE QuarterlyFrom(_, _, _, _)
QuarterlyFrom(mk, q_num, available_capital, trades) ==
  IF q_num > 4 THEN [available_capital |-> available_capital, trades |-> trades]
  ELSE
    LET entry_date == mk.q_dates[q_num][1]
        exit_date == mk.q_dates[q_num + 1][1]
        stock_price_of_entry == mk.stock_price[entry_date]
        skip == QuarterlyFrom(mk, q_num + 1, available_capital, trades)
    IN IF entry_date >= exit_date THEN skip
       ELSE IF stock_price_of_entry = None THEN skip
       ELSE LET trade_details ==
                  execute_single_quarterly_trade(
                    mk.theta[entry_date], "GOOG", entry_date, exit_date,
                    stock_price_of_entry[1], None).ret
            IN IF trade_details = None THEN skip
       ELSE LET settled == SettleTrade(available_capital, trade_details[1],
                                       entry_date, exit_date)
            IN IF settled = None THEN skip
               ELSE QuarterlyFrom(mk, q_num + 1, settled[1].capital,
                                  Append(trades, settled[1]))

analyze_year_compounding_quarterly(mk, year, starting_capital) ==
  IF \E i \in 1..5 : mk.q_dates[i] = None THEN RunOutcome(None, <<>>)
  ELSE LET done == QuarterlyFrom(mk, 1, starting_capital, <<>>)
       IN IF Len(done.trades) = 0 THEN RunOutcome(None, <<>>)
          ELSE RunOutcome(
                 Some(RunResult(year, "Quarterly Compounding", done.available_capital)),
                 done.trades)

(***************************************************************************)
(* The runs of the model: the year 2022, whose third quarter holds the     *)
(* 20:1 split of GOOG.                                                     *)
(***************************************************************************)
QuarterDates == <<Some(20220103), Some(20220331), Some(20220630),
                  Some(20220930), Some(20221230)>>

\* The calendar's answers: all dates; the most recent trading day being the
\* end of June; a date missing.
DateLists ==
  { QuarterDates, [QuarterDates EXCEPT ![5] = Some(20220630)],
    [QuarterDates EXCEPT ![3] = None], [QuarterDates EXCEPT ![1] = None] }

EntryDates == {20220103, 20220331, 20220630, 20220930}

StockPriceAnswers ==
  { [d \in EntryDates |-> Some(TradeStockPrice)],
    [d \in EntryDates |-> IF d = 20220630 THEN None ELSE Some(TradeStockPrice)],
    [d \in EntryDates |-> None] }

RunExpirations == {20230120, 20240119}

\* A provider with a January 2023 and a January 2024 LEAPS, two eligible
\* calls, 10:00 quotes and end-of-day records that tell the strike looked up.
RunTheta ==
  Theta(Data(<<20230120>>), Data(<<ContractRow(4, 20240119)>>),
        Always(RunExpirations, EodTwo), Always(RunExpirations, GoodQuotes),
        ExitByStrike(RunExpirations), <<>>)

ThetaAnswers == [EntryDates -> {RunTheta, NoTheta}]

StartingCapitals == {0, 100000, 300000}

RunStrategies == {"annual", "quarterly"}

NoMarket == Market(<<>>, <<>>, <<>>)

NoRunCall == RunCall("", 0, 0)

\* Before the orchestrator is run, with no inputs chosen.
InitGemini ==
  /\ market = NoMarket
  /\ run_in = NoRunCall
  /\ run_out = None

\* Before the orchestrator is run, for each of its cases.
InitGeminiCases ==
  /\ market \in { Market(q, p, t) : q \in DateLists, p \in StockPriceAnswers,
                                    t \in ThetaAnswers }
  /\ run_in \in { RunCall(s, 2022, c) : s \in RunStrategies, c \in StartingCapitals }
  /\ run_out = None

RunAnnual ==
  /\ run_out = None
  /\ run_in.strategy = "annual"
  /\ run_out' = Some(analyze_year_compounding_annual(
                       market, run_in.year, run_in.starting_capital))
  /\ UNCHANGED <<market, run_in, notGeminiVars>>

RunQuarterly ==
  /\ run_out = None
  /\ run_in.strategy = "quarterly"
  /\ run_out' = Some(analyze_year_compounding_quarterly(
                       market, run_in.year, run_in.starting_capital))
  /\ UNCHANGED <<market, run_in, notGeminiVars>>

NextGemini == RunAnnual \/ RunQuarterly

(***************************************************************************)
(*                          CAPITAL MANAGEMENT                             *)
(*          src/src/backtesting_engine/capital_management.py               *)
(* Capital, costs, commissions and proceeds are in cents and an option     *)
(* price is in cents per share, so that the arithmetic is exact; the code  *)
(* computes in binary floating point.  capital_utilization, a quotient of  *)
(* the amounts below, is left out of the dictionaries.                     *)
(***************************************************************************)
MaxCapitalSteps == 12
MaxContracts == 3

\* The call made to the capital manager; the arguments of the other function
\* are 0.
SizeCall(function, available_capital, option_price, commission_per_contract, max_contracts_per_trade, num_contracts, exit_price) ==
  [function |-> function, available_capital |-> available_capital,
   option_price |-> option_price,
   commission_per_contract |-> commission_per_contract,
   max_contracts_per_trade |-> max_contracts_per_trade,
   num_contracts |-> num_contracts, exit_price |-> exit_price]

\* A variant that ignores the cap.
Uncapped(num_contracts, max_contracts_per_trade) == num_contracts

\* Line 48.
CappedCount(num_contracts, max_contracts_per_trade) ==
  IF num_contracts <= max_contracts_per_trade THEN num_contracts
  ELSE max_contracts_per_trade

\* A variant that takes the capital of a skipped trade for spent.
ZeroContractsSpent(error, available_capital) ==
  [error |-> error, num_contracts |-> 0, total_cost |-> 0, total_commission |-> 0,
   leftover_cash |-> 0]

\* Lines 38-45 and 51-58: the dictionary of a trade that buys nothing.
ZeroContracts(error, available_capital) ==
  [error |-> error, num_contracts |-> 0, total_cost |-> 0, total_commission |-> 0,
   leftover_cash |-> available_capital]

\* A variant that forgets the commission of the entry.
LeftoverBeforeCommission(available_capital, total_option_cost, total_commission) ==
  available_capital - total_option_cost

\* Lines 61-63.
LeftoverCash(available_capital, total_option_cost, total_commission) ==
  available_capital - (total_option_cost + total_commission)

calculate_position_size(available_capital, option_price, commission_per_contract, max_contracts_per_trade) ==
  IF available_capital <= 0 \/ option_price <= 0
    THEN [error |-> "Invalid capital or option price.", num_contracts |-> 0]
  ELSE
    LET cost_per_contract == (option_price * 100) + commission_per_contract
        num_contracts == CappedCount(available_capital \div cost_per_contract,
                                     max_contracts_per_trade)
        total_option_cost == num_contracts * option_price * 100
        total_commission == num_contracts * commission_per_contract
        grand_total_cost == total_option_cost + total_commission
    IN IF cost_per_contract > available_capital
         THEN ZeroContracts("Insufficient capital to purchase a single contract.",
                            available_capital)
       ELSE IF num_contracts = 0
         THEN ZeroContracts("Calculated contracts is zero.", available_capital)
       ELSE [num_contracts |-> num_contracts, total_cost |-> total_option_cost,
             total_commission |-> total_commission,
             leftover_cash |-> LeftoverCash(available_capital, total_option_cost,
                                            total_commission),
             error |-> ""]

\* A variant that takes the price for the price of a contract.
GrossPerContract(num_contracts, exit_price) == num_contracts * exit_price

\* Line 94.
GrossProceeds(num_contracts, exit_price) == num_contracts * exit_price * 100

calculate_exit_proceeds(num_contracts, exit_price, commission_per_contract) ==
  IF num_contracts <= 0
    THEN [error |-> "Invalid number of contracts.", net_proceeds |-> 0]
  ELSE
    LET gross_proceeds == GrossProceeds(num_contracts, exit_price)
        exit_commission == num_contracts * commission_per_contract
    IN [gross_proceeds |-> gross_proceeds, exit_commission |-> exit_commission,
        net_proceeds |-> gross_proceeds - exit_commission, error |-> ""]

(***************************************************************************)
(* The sizing functions that src/scripts/run_claude_backtest.py defines    *)
(* for itself, in the same units.  A division by zero raises               *)
(* ZeroDivisionError.                                                      *)
(***************************************************************************)
TARGET_CAPITAL_UTILIZATION == 1

\* int(a / b) of b > 0: the quotient cut towards zero.
IntQuotient(a, b) == IF a >= 0 THEN a \div b ELSE 0 - ((0 - a) \div b)

Raised(exception) == [raised |-> exception]

run_claude_calculate_position_size(available_capital, entry_price_per_contract, commission_per_contract, max_contracts_per_trade) ==
  IF entry_price_per_contract <= 0
    THEN [num_contracts |-> 0, total_entry_cost |-> 0, total_commission |-> 0,
          total_cost |-> 0, leftover_cash |-> available_capital,
          error |-> "Invalid entry price"]
  ELSE
    LET target_capital == available_capital * TARGET_CAPITAL_UTILIZATION
        cost_per_contract == entry_price_per_contract + commission_per_contract
        max_affordable == IntQuotient(target_capital, cost_per_contract)
        num_contracts == CappedCount(max_affordable, max_contracts_per_trade)
        total_entry_cost == num_contracts * entry_price_per_contract
        total_commission == num_contracts * commission_per_contract
        total_cost == total_entry_cost + total_commission
    IN IF cost_per_contract = 0 \/ available_capital = 0
         THEN Raised("ZeroDivisionError")
       ELSE [num_contracts |-> num_contracts, total_entry_cost |-> total_entry_cost,
             total_commission |-> total_commission, total_cost |-> total_cost,
             leftover_cash |-> available_capital - total_cost, error |-> ""]

run_claude_calculate_exit_proceeds(num_contracts, exit_price_per_contract, commission_per_contract) ==
  LET gross_proceeds == num_contracts * exit_price_per_contract
      exit_commission == num_contracts * commission_per_contract
  IN [gross_proceeds |-> gross_proceeds, exit_commission |-> exit_commission,
      net_proceeds |-> gross_proceeds - exit_commission]

(***************************************************************************)
(* The calls of the model: capitals around the multiples of the cost of a  *)
(* contract of 1 cent per share, and the calls of $100,000 at $50 and of   *)
(* 19 contracts at $60.                                                    *)
(***************************************************************************)
Capitals == { 45 * k : k \in (-1)..MaxCapitalSteps } \cup {10000000}
OptionPrices == {0, 1, 2, 5000}
Commissions == {0, 35}
ContractCaps == {0, 1, 2, 999999}
ContractCounts == ((-1)..MaxContracts) \cup {19}
ExitPrices == {0, 1, 6000}

SizeCalls ==
  { SizeCall(fn, c, p, f, m, 0, 0) :
      fn \in {"position", "run_claude_position"},
      c \in Capitals, p \in OptionPrices, f \in Commissions, m \in ContractCaps }
  \cup
  { SizeCall(fn, 0, 0, f, 0, n, x) :
      fn \in {"exit", "run_claude_exit"},
      f \in Commissions, n \in ContractCounts, x \in ExitPrices }

NoSizeCall == SizeCall("", 0, 0, 0, 0, 0, 0)

\* Before the capital manager is called, with no inputs chosen.
InitCapital ==
  /\ size_in = NoSizeCall
  /\ size_out = None

\* Before the capital manager is called, for each of its inputs.
InitCapitalInputs ==
  /\ size_in \in SizeCalls
  /\ size_out = None

SizePosition ==
  /\ size_out = None
  /\ size_in.function = "position"
  /\ size_out' = Some(calculate_position_size(
                        size_in.available_capital, size_in.option_price,
                        size_in.commission_per_contract,
                        size_in.max_contracts_per_trade))
  /\ UNCHANGED <<size_in, notCapitalVars>>

SizeExit ==
  /\ size_out = None
  /\ size_in.function = "exit"
  /\ size_out' = Some(calculate_exit_proceeds(
                        size_in.num_contracts, size_in.exit_price,
                        size_in.commission_per_contract))
  /\ UNCHANGED <<size_in, notCapitalVars>>

RunClaudeSizePosition ==
  /\ size_out = None
  /\ size_in.function = "run_claude_position"
  /\ size_out' = Some(run_claude_calculate_position_size(
                        size_in.available_capital, size_in.option_price,
                        size_in.commission_per_contract,
                        size_in.max_contracts_per_trade))
  /\ UNCHANGED <<size_in, notCapitalVars>>

RunClaudeSizeExit ==
  /\ size_out = None
  /\ size_in.function = "run_claude_exit"
  /\ size_out' = Some(run_claude_calculate_exit_proceeds(
                        size_in.num_contracts, size_in.exit_price,
                        size_in.commission_per_contract))
  /\ UNCHANGED <<size_in, notCapitalVars>>

NextCapital == SizePosition \/ SizeExit \/ RunClaudeSizePosition \/ RunClaudeSizeExit

(***************************************************************************)
(*                 THE COMPOUNDING BACKTEST OF A YEAR                      *)
(*                 src/scripts/run_claude_backtest.py                      *)
(* Capital, costs and proceeds are in cents; an option price is in cents   *)
(* per share, as the engine returns it.  The percentages of a result are   *)
(* left out but for the divisions that compute them, which raise           *)
(* ZeroDivisionError on a divisor of 0.                                    *)
(***************************************************************************)
DEFAULT_STARTING_CAPITAL == 10000000
MAX_CONTRACTS_PER_TRADE == 999999
SYMBOL == "GOOG"

\* What a backtest is answered: the calendar's sorted trading days of each
\* year (no days where it has none), today's date, the stock price of each
\* date (None where the price service has none) and the provider's answers
\* to a trade entered on each date.
World(trading_days, today, stock_prices, thetas) ==
  [trading_days |-> trading_days, today |-> today, stock_price |-> stock_prices,
   theta |-> thetas]

TradingDaysOf(wd, year) ==
  IF year \in DOMAIN wd.trading_days THEN wd.trading_days[year] ELSE <<>>

FirstTradingDay(wd, year) ==
  LET trading_days == TradingDaysOf(wd, year)
  IN IF trading_days = <<>> THEN None ELSE Some(trading_days[1])

LastTradingDay(wd, year) ==
  LET trading_days == TradingDaysOf(wd, year)
  IN IF trading_days = <<>> THEN None ELSE Some(trading_days[Len(trading_days)])

MostRecentTradingDay(wd) ==
  MostRecentOf(TradingDaysOf(wd, YearOf(wd.today)), wd.today)

\* What a function gave: its return value, or the exception it raised.
Returned(ret) == [ret |-> Some(ret), raised |-> ""]

Raises(exception) == [ret |-> None, raised |-> exception]

\* dict.update
Merged(a, b) == [k \in DOMAIN a \cup DOMAIN b |-> IF k \in DOMAIN b THEN b[k] ELSE a[k]]

\* A variant that forgets the commission of the exit.
GrossEndingCapital(exit_info, position_info) ==
  exit_info.gross_proceeds + position_info.leftover_cash

\* Lines 250 and 393.
EndingCapital(exit_info, position_info) ==
  exit_info.net_proceeds + position_info.leftover_cash

\* The result of a year without an annual trade.
AnnualNoTrade(year, starting_capital, error, trade_details) ==
  [year |-> year, strategy |-> "Annual Compounding",
   starting_capital |-> starting_capital, final_capital |-> starting_capital,
   num_contracts |-> 0, error |-> error, trade_details |-> trade_details]

\* Lines 161-165.
AnnualExitDate(wd, year) ==
  IF year = YearOf(wd.today) THEN MostRecentTradingDay(wd)
  ELSE LastTradingDay(wd, year)

\* Lines 206-268: the result of the year, from what the engine answered.
AnnualTrade(year, starting_capital, annual_result, commission_per_contract, max_contracts_per_trade) ==
  IF annual_result = None
    THEN Returned(AnnualNoTrade(year, starting_capital,
                                "No trade data available", None))
  ELSE LET position_info ==
             run_claude_calculate_position_size(
               starting_capital, annual_result[1].entry_price,
               commission_per_contract, max_contracts_per_trade)
       IN IF "raised" \in DOMAIN position_info
            THEN Raises(position_info.raised)
          ELSE IF position_info.error # "" \/ position_info.num_contracts = 0
            THEN Returned(AnnualNoTrade(
                   year, starting_capital,
                   IF position_info.error # "" THEN position_info.error
                   ELSE "No contracts can be purchased", annual_result))
  ELSE LET exit_info ==
             run_claude_calculate_exit_proceeds(
               position_info.num_contracts, annual_result[1].exit_price,
               commission_per_contract)
           final_capital == EndingCapital(exit_info, position_info)
       IN IF starting_capital = 0 THEN Raises("ZeroDivisionError")
          ELSE Returned(
                 [year |-> year, strategy |-> "Annual Compounding",
                  starting_capital |-> starting_capital,
                  final_capital |-> final_capital,
                  num_contracts |-> position_info.num_contracts,
                  total_cost |-> position_info.total_cost,
                  gross_proceeds |-> exit_info.gross_proceeds,
                  net_proceeds |-> exit_info.net_proceeds,
                  total_commissions |-> position_info.total_commission
                                          + exit_info.exit_commission,
                  leftover_cash |-> position_info.leftover_cash,
                  error |-> "", trade_details |-> annual_result])

run_claude_analyze_year_compounding_annual(wd, year, starting_capital, commission_per_contract, max_contracts_per_trade) ==
  LET entry_date == FirstTradingDay(wd, year)
      exit_date == AnnualExitDate(wd, year)
  IN IF entry_date = None \/ exit_date = None
       THEN Returned(AnnualNoTrade(year, starting_capital,
                                   "Could not determine dates", None))
     ELSE IF wd.stock_price[entry_date[1]] = None
       THEN Returned(AnnualNoTrade(year, starting_capital,
                                   "Could not get stock price", None))
     ELSE AnnualTrade(year, starting_capital,
                      find_optimal_leaps_annual_january(
                        wd.theta[entry_date[1]], SYMBOL, year, entry_date[1],
                        exit_date[1], wd.stock_price[entry_date[1]][1]).ret,
                      commission_per_contract, max_contracts_per_trade)

\* The record of a quarter without a trade (lines 317-323 and alike).
QuarterNoTrade(quarter, available_capital, error) ==
  [quarter |-> quarter, available_capital |-> available_capital, error |-> error,
   num_contracts |-> 0, capital_after_trade |-> available_capital]

\* A variant that keeps the end of the quarter.
UncappedExit(exit_date, most_recent_day) == exit_date

\* Lines 312-313.
CappedExit(exit_date, most_recent_day) ==
  IF most_recent_day # None /\ exit_date # None /\ exit_date[1] > most_recent_day[1]
    THEN most_recent_day
    ELSE exit_date

\* What the loop of analyze_year_compounding_quarterly has when it ends.
LoopEnd(available_capital, total_commissions, quarterly_trades, raised) ==
  [available_capital |-> available_capital, total_commissions |-> total_commissions,
   quarterly_trades |-> quarterly_trades, raised |-> raised]

\* The loop of analyze_year_compounding_quarterly over the quarters from
\* quarter to last_quarter; the code runs it from 1 to 4.
RECURSIVE QuartersFrom(_, _, _, _, _, _, _, _, _)

\* Lines 355-423: the rest of the loop, from what the engine answered for the
\* quarter.
QuarterTraded(wd, year, quarter, last_quarter, available_capital, commission_per_contract, max_contracts_per_trade, total_commissions, quarterly_trades, quarterly_result) ==
  LET NoTrade(error) ==
        QuartersFrom(wd, year, quarter + 1, last_quarter, available_capital,
                     commission_per_contract, max_contracts_per_trade,
                     total_commissions,
                     Append(quarterly_trades,
                            QuarterNoTrade(quarter, available_capital, error)))
  IN IF quarterly_result = None THEN NoTrade("No trade data available")
     ELSE
       LET position_info ==
             run_claude_calculate_position_size(
               available_capital, quarterly_result[1].entry_price,
               commission_per_contract, max_contracts_per_trade)
       IN IF "raised" \in DOMAIN position_info
            THEN LoopEnd(available_capital, total_commissions,
                         quarterly_trades, position_info.raised)
          ELSE IF position_info.error # "" THEN NoTrade(position_info.error)
          ELSE IF position_info.num_contracts = 0
            THEN NoTrade("No contracts can be purchased")
          ELSE
            LET exit_info ==
                  run_claude_calculate_exit_proceeds(
                    position_info.num_contracts,
                    quarterly_result[1].exit_price, commission_per_contract)
                new_available_capital == EndingCapital(exit_info, position_info)
                trade_commissions == position_info.total_commission
                                       + exit_info.exit_commission
                trade_summary ==
                  [quarter |-> quarter,
                   available_capital |-> available_capital,
                   num_contracts |-> position_info.num_contracts,
                   capital_after_trade |-> new_available_capital,
                   commissions |-> trade_commissions, error |-> ""]
            IN QuartersFrom(
                 wd, year, quarter + 1, last_quarter, new_available_capital,
                 commission_per_contract, max_contracts_per_trade,
                 total_commissions + trade_commissions,
                 Append(quarterly_trades,
                        Merged(trade_summary, quarterly_result[1])))

QuartersFrom(wd, year, quarter, last_quarter, available_capital, commission_per_contract, max_contracts_per_trade, total_commissions, quarterly_trades) ==
  IF quarter > last_quarter
    THEN LoopEnd(available_capital, total_commissions, quarterly_trades, "")
  ELSE
    LET most_recent_day == IF year = YearOf(wd.today) THEN MostRecentTradingDay(wd)
                           ELSE None
        entry_date == FirstOfQuarter(TradingDaysOf(wd, year), quarter)
        exit_date == CappedExit(LastOfQuarter(TradingDaysOf(wd, year), quarter),
                                most_recent_day)
        Continue(trades) ==
          QuartersFrom(wd, year, quarter + 1, last_quarter, available_capital,
                       commission_per_contract, max_contracts_per_trade,
                       total_commissions, trades)
        NoTrade(error) ==
          Continue(Append(quarterly_trades,
                          QuarterNoTrade(quarter, available_capital, error)))
    IN IF most_recent_day # None /\ entry_date # None
            /\ entry_date[1] > most_recent_day[1]
         THEN LoopEnd(available_capital, total_commissions, quarterly_trades, "")
       ELSE IF entry_date = None \/ exit_date = None
         THEN NoTrade("Could not determine dates")
       ELSE IF entry_date[1] >= exit_date[1] THEN Continue(quarterly_trades)
       ELSE IF wd.stock_price[entry_date[1]] = None
         THEN NoTrade("Could not get stock price")
       ELSE QuarterTraded(
              wd, year, quarter, last_quarter, available_capital,
              commission_per_contract, max_contracts_per_trade,
              total_commissions, quarterly_trades,
              execute_single_quarterly_trade(
                wd.theta[entry_date[1]], SYMBOL, entry_date[1], exit_date[1],
                wd.stock_price[entry_date[1]][1], None).ret)

\* Lines 425-438: the result of the year, from what the loop left.
QuarterlyYear(year, starting_capital, loop) ==
  IF loop.raised # "" THEN Raises(loop.raised)
  ELSE IF starting_capital = 0 THEN Raises("ZeroDivisionError")
  ELSE Returned([year |-> year, strategy |-> "Quarterly Rolling Compounding",
                 starting_capital |-> starting_capital,
                 final_capital |-> loop.available_capital,
                 total_commissions |-> loop.total_commissions,
                 quarterly_trades |-> loop.quarterly_trades, error |-> ""])

run_claude_analyze_year_compounding_quarterly(wd, year, starting_capital, commission_per_contract, max_contracts_per_trade) ==
  QuarterlyYear(year, starting_capital,
                QuartersFrom(wd, year, 1, 4, starting_capital,
                             commission_per_contract, max_contracts_per_trade,
                             0, <<>>))

\* What main gave: the results it gathered, the exception that ended it and
\* whether it reached its end.
MainOutcome(all_results, raised, exited) ==
  [all_results |-> all_results, raised |-> raised, exited |-> exited]

\* The loop of main over the years from year to end_year.
RECURSIVE YearsFrom(_, _, _, _, _, _, _)

\* Lines 661-672: the rest of the loop, from the two results of the year.
YearAnalyzed(wd, year, end_year, capital, commission_per_contract, max_contracts_per_trade, all_results, annual_result, quarterly_result) ==
  IF annual_result.raised # ""
    THEN MainOutcome(all_results, annual_result.raised, FALSE)
  ELSE IF quarterly_result.raised # ""
    THEN MainOutcome(Append(all_results, annual_result.ret[1]),
                     quarterly_result.raised, FALSE)
  ELSE YearsFrom(wd, year + 1, end_year, capital, commission_per_contract,
                 max_contracts_per_trade,
                 Append(Append(all_results, annual_result.ret[1]),
                        quarterly_result.ret[1]))

YearsFrom(wd, year, end_year, capital, commission_per_contract, max_contracts_per_trade, all_results) ==
  IF year > end_year THEN MainOutcome(all_results, "", FALSE)
  ELSE IF year > YearOf(wd.today)
    THEN YearsFrom(wd, year + 1, end_year, capital, commission_per_contract,
                   max_contracts_per_trade, all_results)
  ELSE YearAnalyzed(
         wd, year, end_year, capital, commission_per_contract,
         max_contracts_per_trade, all_results,
         run_claude_analyze_year_compounding_annual(
           wd, year, capital, commission_per_contract, max_contracts_per_trade),
         run_claude_analyze_year_compounding_quarterly(
           wd, year, capital, commission_per_contract, max_contracts_per_trade))

\* main with its arguments parsed; the displays that follow the loop only
\* read the results.
run_claude_main(wd, terminal_running, start_year, end_year, capital, commission_per_contract, max_contracts_per_trade) ==
  IF ~terminal_running THEN MainOutcome(<<>>, "", TRUE)
  ELSE YearsFrom(wd, start_year, end_year, capital, commission_per_contract,
                 max_contracts_per_trade, <<>>)

(***************************************************************************)
(* analyze_quarterly_strategy of                                           *)
(* src/src/backtesting_engine/accurate_optimized_leaps.py, the quarterly   *)
(* strategy of a year on one contract per trade.                           *)
(***************************************************************************)
SchedulePeriod(quarter, entry, exit) == [quarter |-> quarter, entry |-> entry, exit |-> exit]

\* Lines 431-441.
TradeSchedule(wd, symbol, year) ==
  LET q1_start == FirstTradingDay(wd, year)
      q1_end == LastOfQuarter(TradingDaysOf(wd, year), 1)
      q2_end == LastOfQuarter(TradingDaysOf(wd, year), 2)
      q3_end == LastOfQuarter(TradingDaysOf(wd, year), 3)
      q4_end == IF year = YearOf(wd.today) THEN MostRecentTradingDay(wd)
                ELSE LastOfQuarter(TradingDaysOf(wd, year), 4)
  IN << SchedulePeriod("Q1", q1_start, q1_end), SchedulePeriod("Q2", q1_end, q2_end),
        SchedulePeriod("Q3", q2_end, q3_end), SchedulePeriod("Q4", q3_end, q4_end) >>

\* A variant that never pins a strike.
NeverLocked(use_fixed_strikes, fixed_strike, trade_result) == fixed_strike

\* Lines 463-464; the trade's 'strike' is its original_strike.
LockedStrike(use_fixed_strikes, fixed_strike, trade_result) ==
  IF use_fixed_strikes /\ fixed_strike = None
    THEN Some(trade_result.original_strike)
    ELSE fixed_strike

\* The loop over the schedule from its i-th period on.  A trade is recorded
\* with, as history, the fixed_strike its selection was called with.
RECURSIVE ScheduleFrom(_, _, _, _, _, _, _)
ScheduleFrom(wd, symbol, trade_schedule, i, use_fixed_strikes, fixed_strike, trades) ==
  IF i > Len(trade_schedule) THEN trades
  ELSE
    LET entry == trade_schedule[i].entry
        exit_ == trade_schedule[i].exit
        skip == ScheduleFrom(wd, symbol, trade_schedule, i + 1, use_fixed_strikes,
                             fixed_strike, trades)
    IN IF entry = None \/ exit_ = None THEN skip
       ELSE IF wd.stock_price[entry[1]] = None THEN skip
       ELSE
         LET trade_result ==
               execute_single_quarterly_trade(
                 wd.theta[entry[1]], symbol, entry[1], exit_[1],
                 wd.stock_price[entry[1]][1], fixed_strike).ret
         IN IF trade_result = None THEN skip
            ELSE ScheduleFrom(
                   wd, symbol, trade_schedule, i + 1, use_fixed_strikes,
                   LockedStrike(use_fixed_strikes, fixed_strike, trade_result[1]),
                   Append(trades,
                          Merged(trade_result[1],
                                 [quarter |-> trade_schedule[i].quarter,
                                  fixed_strike |-> fixed_strike])))

\* sum(trade[field] for trade in trades)
RECURSIVE SumOf(_, _)
SumOf(trades, field) ==
  IF trades = <<>> THEN 0 ELSE trades[1][field] + SumOf(Tail(trades), field)

\* A quotient of the code, kept as its dividend and its divisor.
Quotient(dividend, divisor) == [dividend |-> dividend, divisor |-> divisor]

\* A variant that reports the average of the deviations, in whole days.
average_deviation(trades) == SumOf(trades, "deviation_days") \div Len(trades)

\* Lines 472 and 474.
max_deviation(trades) ==
  SetMax({ trades[i].deviation_days : i \in 1..Len(trades) })

\* Line 467.
winning_trades(trades) ==
  Cardinality({ i \in 1..Len(trades) : trades[i].pnl_per_contract > 0 })

\* Lines 467-487, for one trade at least.  avg_months_to_exp is the average
\* of days_to_exp, which months_to_exp is a fixed fraction of; the averages
\* of the Greeks are left out.
YearlySummary(trades) ==
  [total_trades |-> Len(trades), winning_trades |-> winning_trades(trades),
   total_pnl |-> SumOf(trades, "pnl_per_contract"),
   total_investment |-> SumOf(trades, "entry_price"),
   avg_hold_days |-> Quotient(SumOf(trades, "hold_days"), Len(trades)),
   avg_months_to_exp |-> Quotient(SumOf(trades, "days_to_exp"), Len(trades)),
   max_deviation_days |-> max_deviation(trades)]

analyze_quarterly_strategy(wd, symbol, year, use_fixed_strikes) ==
  LET trade_schedule == TradeSchedule(wd, symbol, year)
      trades == ScheduleFrom(wd, symbol, trade_schedule, 1, use_fixed_strikes,
                             None, <<>>)
  IN IF \E i \in 1..3 : trade_schedule[i].entry = None \/ trade_schedule[i].exit = None
       THEN Returned(None)
     ELSE IF trades = <<>> THEN Returned(None)
     ELSE Returned(Some([year |-> year, trades |-> trades,
                         yearly_summary |-> YearlySummary(trades),
                         use_fixed_strikes |-> use_fixed_strikes,
                         quarter_schedule |-> trade_schedule]))

(***************************************************************************)
(* The backtests of the model: the year 2022, seen from the year after,    *)
(* from the twentieth of August and from the first of April.               *)
(***************************************************************************)
TradingYear == <<20220103, 20220331, 20220401, 20220630, 20220701, 20220815,
                 20220930, 20221003, 20221230>>

\* The days of the year up to a date.
DaysUpTo(day) == SelectSeq(TradingYear, LAMBDA d : d <= day)

Calendar(trading_days, today) == [trading_days |-> trading_days, today |-> today]

\* The whole year, past; the year as far as it went, with and without the
\* days to come; the year on the first day of its second quarter; the year
\* on the last day of that quarter, where the exchange is a day ahead; no
\* calendar.
Calendars ==
  { Calendar([y \in {2022} |-> TradingYear], 20230601),
    Calendar([y \in {2022} |-> TradingYear], 20220820),
    Calendar([y \in {2022} |-> DaysUpTo(20220820)], 20220820),
    Calendar([y \in {2022} |-> DaysUpTo(20220401)], 20220401),
    Calendar([y \in {2022} |-> DaysUpTo(20220701)], 20220630),
    Calendar(<<>>, 20230601) }

TradingDates == { TradingYear[i] : i \in 1..Len(TradingYear) }

\* The dates on which the periods of a quarter are entered.
EntriesOfQuarter ==
  <<{20220103}, {20220331, 20220401}, {20220630, 20220701, 20220815},
    {20220930, 20221003}>>

QuarterOfEntry(d) ==
  IF \E q \in 1..4 : d \in EntriesOfQuarter[q]
    THEN CHOOSE q \in 1..4 : d \in EntriesOfQuarter[q]
    ELSE 0

WorldPrices ==
  { [d \in TradingDates |-> Some(TradeStockPrice)],
    [d \in TradingDates |-> IF QuarterOfEntry(d) = 3 THEN None
                            ELSE Some(TradeStockPrice)],
    [d \in TradingDates |-> None] }

\* RunTheta with the call of 145 alone in the money.
RunThetaOne ==
  Theta(Data(<<20230120>>), Data(<<ContractRow(4, 20240119)>>),
        Always(RunExpirations, EodOne), Always(RunExpirations, GoodQuotes),
        ExitByStrike(RunExpirations), <<>>)

\* RunTheta with calls that are worth nothing on the exit date.
RunThetaWorthless ==
  Theta(Data(<<20230120>>), Data(<<ContractRow(4, 20240119)>>),
        Always(RunExpirations, EodTwo), Always(RunExpirations, GoodQuotes),
        Always(RunExpirations \X ExitStrikes, Data(<<ExitRecord("ok", 0, 0)>>)),
        <<>>)

\* The provider by quarter of the entry date.
ThetaByQuarter(by_quarter) ==
  [d \in TradingDates |-> IF QuarterOfEntry(d) = 0 THEN NoTheta
                          ELSE by_quarter[QuarterOfEntry(d)]]

WorldThetas ==
  { ThetaByQuarter(<<RunTheta, RunTheta, RunTheta, RunTheta>>),
    ThetaByQuarter(<<RunTheta, NoTheta, RunTheta, RunTheta>>),
    ThetaByQuarter(<<RunTheta, RunThetaOne, RunTheta, RunThetaOne>>),
    ThetaByQuarter(<<NoTheta, RunThetaOne, RunTheta, RunTheta>>),
    ThetaByQuarter(<<RunThetaWorthless, NoTheta, RunTheta, RunTheta>>),
    ThetaByQuarter(<<NoTheta, NoTheta, NoTheta, NoTheta>>) }

Worlds ==
  { World(c.trading_days, c.today, p, t) :
      c \in Calendars, p \in WorldPrices, t \in WorldThetas }

BacktestCapitals == {0, 1000, 100000, DEFAULT_STARTING_CAPITAL}

BacktestCommissions == {0, COMMISSION_PER_CONTRACT}

BacktestCaps == {1, MAX_CONTRACTS_PER_TRADE}

BacktestCall(function, start_year, end_year, capital, commission_per_contract, max_contracts_per_trade, use_fixed_strikes, terminal_running) ==
  [function |-> function, start_year |-> start_year, end_year |-> end_year,
   capital |-> capital, commission_per_contract |-> commission_per_contract,
   max_contracts_per_trade |-> max_contracts_per_trade,
   use_fixed_strikes |-> use_fixed_strikes, terminal_running |-> terminal_running]

BacktestCalls ==
  { BacktestCall(fn, 2022, 2022, c, f, m, FALSE, TRUE) :
      fn \in {"annual", "quarterly"}, c \in BacktestCapitals,
      f \in BacktestCommissions, m \in BacktestCaps }
  \cup
  { BacktestCall("main", 2021, end, c, f, m, FALSE, TRUE) :
      end \in {2022, 2023}, c \in BacktestCapitals, f \in BacktestCommissions,
      m \in BacktestCaps }
  \cup
  { BacktestCall("main", 2021, 2023, DEFAULT_STARTING_CAPITAL,
                 COMMISSION_PER_CONTRACT, MAX_CONTRACTS_PER_TRADE, FALSE, FALSE) }
  \cup
  { BacktestCall("analyze_quarterly_strategy", 2022, 2022, 0, 0, 0, fixed, TRUE) :
      fixed \in BOOLEAN }

NoWorld == World(<<>>, 0, <<>>, <<>>)

NoBacktestCall == BacktestCall("", 0, 0, 0, 0, 0, FALSE, FALSE)

\* Before a backtest is run, with no inputs chosen.
InitBacktest ==
  /\ world = NoWorld
  /\ backtest_in = NoBacktestCall
  /\ backtest_out = None

\* Before a backtest is run, for each of its cases.
InitBacktestCases ==
  /\ world \in Worlds
  /\ backtest_in \in BacktestCalls
  /\ backtest_out = None

BacktestAnnual ==
  /\ backtest_out = None
  /\ backtest_in.function = "annual"
  /\ backtest_out' = Some(run_claude_analyze_year_compounding_annual(
                            world, backtest_in.start_year, backtest_in.capital,
                            backtest_in.commission_per_contract,
                            backtest_in.max_contracts_per_trade))
  /\ UNCHANGED <<world, backtest_in, notBacktestVars>>

BacktestQuarterly ==
  /\ backtest_out = None
  /\ backtest_in.function = "quarterly"
  /\ backtest_out' = Some(run_claude_analyze_year_compounding_quarterly(
                            world, backtest_in.start_year, backtest_in.capital,
                            backtest_in.commission_per_contract,
                            backtest_in.max_contracts_per_trade))
  /\ UNCHANGED <<world, backtest_in, notBacktestVars>>

BacktestMain ==
  /\ backtest_out = None
  /\ backtest_in.function = "main"
  /\ backtest_out' = Some(run_claude_main(
                            world, backtest_in.terminal_running,
                            backtest_in.start_year, backtest_in.end_year,
                            backtest_in.capital, backtest_in.commission_per_contract,
                            backtest_in.max_contracts_per_trade))
  /\ UNCHANGED <<world, backtest_in, notBacktestVars>>

AnalyzeQuarterlyStrategy ==
  /\ backtest_out = None
  /\ backtest_in.function = "analyze_quarterly_strategy"
  /\ backtest_out' = Some(analyze_quarterly_strategy(
                            world, SYMBOL, backtest_in.start_year,
                            backtest_in.use_fixed_strikes))
  /\ UNCHANGED <<world, backtest_in, notBacktestVars>>

NextBacktest ==
  BacktestAnnual \/ BacktestQuarterly \/ BacktestMain \/ AnalyzeQuarterlyStrategy

(***************************************************************************)
(*                  CLASSIFICATION OF A PROVIDER RESPONSE                  *)
(*                                                                         *)
(* get_stock_price_tiingo and get_stock_price_marketstack of               *)
(* src/mcp-trader/smart_leaps_backtest.py, each called once on every kind  *)
(* of answer: no API key, a call that failed, and the bodies a call can    *)
(* decode.                                                                 *)
(***************************************************************************)
\* The errors of api_call_with_classification (lines 113-120).
ApiCallErrors == {"json_decode", "http_error", "timeout", "network_error"}

\* Messages of a Tiingo error object and codes of a MarketStack one.
TiingoMessages == {"Rate limit exceeded", "Unauthorized", "Internal Server Error"}

MarketStackCodes ==
  {"rate_limit_reached", "usage_limit_reached", "invalid_access_key",
   "unauthorized", "internal_error"}

MaxItems == 2

\* The items of a result list: their number, and whether the first has an
\* "open".
ItemLists ==
  { <<n, has_open>> \in (0..MaxItems) \X BOOLEAN : has_open => n > 0 }

\* The decoded bodies: a list, a dictionary with "data", a dictionary
\* without, each dictionary with or without an "error", and a scalar.
DecodedBodies(texts) ==
  { Json("list", FALSE, l[1], l[2], IF l[2] THEN p ELSE 0, FALSE, "") :
      l \in ItemLists, p \in PriceValues }
  \cup { Json("dict", TRUE, l[1], l[2], IF l[2] THEN p ELSE 0, FALSE, "") :
           l \in ItemLists, p \in PriceValues }
  \cup { Json("dict", TRUE, l[1], l[2], IF l[2] THEN p ELSE 0, TRUE, t) :
           l \in ItemLists, p \in PriceValues, t \in texts }
  \cup { Json("dict", FALSE, 0, FALSE, 0, TRUE, t) : t \in texts }
  \cup { Json("dict", FALSE, 0, FALSE, 0, FALSE, ""),
         Json("other", FALSE, 0, FALSE, 0, FALSE, "") }

ClassifyCall(provider, env) == [provider |-> provider, env |-> env]

ClassifyCalls ==
  { ClassifyCall("tiingo", env) :
      env \in ProviderEnv(BOOLEAN, DecodedBodies(TiingoMessages), ApiCallErrors) }
  \cup
  { ClassifyCall("marketstack", env) :
      env \in ProviderEnv(BOOLEAN, DecodedBodies(MarketStackCodes), ApiCallErrors) }

NoClassifyCall == ClassifyCall("", [has_key |-> FALSE, response |-> NoResponse])

\* Before a provider is asked, with no answer chosen.
InitClassify ==
  /\ raw_in = NoClassifyCall
  /\ classified = None

\* Before a provider is asked, for each of its answers.
InitClassifyCases ==
  /\ raw_in \in ClassifyCalls
  /\ classified = None

ClassifyTiingo ==
  /\ classified = None
  /\ raw_in.provider = "tiingo"
  /\ classified' = Some(get_stock_price_tiingo(raw_in.env))
  /\ UNCHANGED <<raw_in, notClassifyVars>>

ClassifyMarketStack ==
  /\ classified = None
  /\ raw_in.provider = "marketstack"
  /\ classified' = Some(get_stock_price_marketstack(raw_in.env))
  /\ UNCHANGED <<raw_in, notClassifyVars>>

NextClassify == ClassifyTiingo \/ ClassifyMarketStack

(***************************************************************************)
(*                   SEARCH OF THE MARKET DAYS OF A YEAR                   *)
(*                                                                         *)
(* find_first_market_day_smart and get_last_trading_day_smart of           *)
(* src/mcp-trader/smart_leaps_backtest.py.  The cache file holds the       *)
(* "providers" object and the "market_days" object; its meta object, which *)
(* no decision reads, is left out.                                         *)
(***************************************************************************)
SmartCache(providers, market_days) ==
  [providers |-> providers, market_days |-> market_days]

\* What load_smart_cache returns where there is no file.
EmptySmartCache == SmartCache(EmptyCache, <<>>)

\* date.weekday(): Monday is 0.
Weekday(d) == (ToOrdinal(d) + 6) % 7

\* f"first_market_day_{year}_{symbol}" and f"last_market_day_{year}_{symbol}"
MarketDayKey(which, year, symbol) ==
  which \o "_market_day_" \o ToString(year) \o "_" \o symbol

\* What a search returned, the cache file it left, and (history only) the
\* entries its price resolutions wrote to the file with a terminal outcome.
SearchOutcome(ret, file, persisted) ==
  [ret |-> ret, file |-> file, persisted |-> persisted]

\* History only: the provider entries a resolution wrote as success or
\* market_closed.
TerminalWrites(steps, symbol, date_str) ==
  { <<steps[i].provider, CacheKey(steps[i].provider, symbol, date_str)>> :
      i \in { j \in 1..Len(steps) :
                /\ steps[j].op = "call"
                /\ steps[j].cache_type \in {"success", "market_closed"} } }

\* The market day is put into the cache loaded when the search began, which
\* save_smart_cache writes over the file.
market_day_saved(cache, file, cache_key, date_str) ==
  SmartCache(cache.providers, Put(cache.market_days, cache_key, date_str))

\* The loop of a search over the offsets from days_offset to last_offset,
\* the dates going up (step 1) or down (step -1) from first_date.  cache is
\* what the search loaded when it began, file the cache file as it is now.
RECURSIVE SearchFrom(_, _, _, _, _, _, _, _, _, _, _)

\* The rest of the loop, from what the price resolution of test_date gave.
DayTested(cache, file, now, symbol, cache_key, first_date, step, days_offset, last_offset, answers, persisted, test_date, out) ==
  IF out.ret # None /\ out.ret[1] > 0
    THEN SearchOutcome(
           Some(ToString(test_date)),
           market_day_saved(cache, SmartCache(out.file, file.market_days),
                            cache_key, ToString(test_date)),
           persisted \cup TerminalWrites(out.steps, symbol, ToString(test_date)))
    ELSE SearchFrom(cache, SmartCache(out.file, file.market_days), now, symbol,
                    cache_key, first_date, step, days_offset + 1, last_offset,
                    answers,
                    persisted \cup TerminalWrites(out.steps, symbol, ToString(test_date)))

SearchFrom(cache, file, now, symbol, cache_key, first_date, step, days_offset, last_offset, answers, persisted) ==
  IF days_offset > last_offset THEN SearchOutcome(None, file, persisted)
  ELSE IF Weekday(first_date + step * days_offset) > 4
    THEN SearchFrom(cache, file, now, symbol, cache_key, first_date, step,
                    days_offset + 1, last_offset, answers, persisted)
  ELSE DayTested(cache, file, now, symbol, cache_key, first_date, step,
                 days_offset, last_offset, answers, persisted,
                 first_date + step * days_offset,
                 get_stock_price_with_smart_fallback(
                   file.providers, now, symbol,
                   ToString(first_date + step * days_offset),
                   answers[first_date + step * days_offset].tiingo,
                   answers[first_date + step * days_offset].marketstack))

find_first_market_day_smart(file, now, year, symbol, answers) ==
  IF MarketDayKey("first", year, symbol) \in DOMAIN file.market_days
    THEN SearchOutcome(Some(file.market_days[MarketDayKey("first", year, symbol)]),
                       file, {})
    ELSE SearchFrom(file, file, now, symbol, MarketDayKey("first", year, symbol),
                    year * 10000 + 101, 1, 0, 14, answers, {})

get_last_trading_day_smart(file, now, year, symbol, answers) ==
  IF year = 2025 THEN SearchOutcome(Some("20250702"), file, {})
  ELSE IF MarketDayKey("last", year, symbol) \in DOMAIN file.market_days
    THEN SearchOutcome(Some(file.market_days[MarketDayKey("last", year, symbol)]),
                       file, {})
    ELSE SearchFrom(file, file, now, symbol, MarketDayKey("last", year, symbol),
                    year * 10000 + 1231, -1, 0, 9, answers, {})

(***************************************************************************)
(* The searches of the model: the years 2023, which begins on a Sunday and *)
(* a holiday and ends on a weekend, and 2025.                              *)
(***************************************************************************)
MaxSearches == 2

SearchYears == {2023, 2025}

SearchDates ==
  { y * 10000 + 101 + o : y \in SearchYears, o \in 0..14 }
  \cup { y * 10000 + 1231 - o : y \in SearchYears, o \in 0..9 }

CallAnswered(raw) ==
  [has_key |-> TRUE,
   response |-> [call_success |-> TRUE, error |-> "", raw_response |-> raw]]

CallTimedOut ==
  [has_key |-> TRUE,
   response |-> [call_success |-> FALSE, error |-> "timeout", raw_response |-> NoJson]]

NoKey == [has_key |-> FALSE, response |-> NoResponse]

DayAnswer(tiingo, marketstack) == [tiingo |-> tiingo, marketstack |-> marketstack]

\* A day the market is open: the primary has the price, or it fails and the
\* secondary has it.
OpenDays ==
  UNION { { DayAnswer(CallAnswered(Json("list", FALSE, 1, TRUE, p, FALSE, "")),
                      CallTimedOut),
            DayAnswer(NoKey, CallAnswered(Json("dict", TRUE, 1, TRUE, p, FALSE, ""))) } :
          p \in PriceValues }

\* A day without a price: the primary has an empty result, or it fails and
\* the secondary has an empty result, or both fail.
ClosedDays ==
  { DayAnswer(CallAnswered(Json("list", FALSE, 0, FALSE, 0, FALSE, "")), CallTimedOut),
    DayAnswer(NoKey, CallAnswered(Json("dict", TRUE, 0, FALSE, 0, FALSE, ""))),
    DayAnswer(NoKey, CallTimedOut) }

\* The days without a price: none, the holidays, every day.
HolidaySets == { {}, {20230102, 20231229, 20250101}, SearchDates }

SearchAnswers ==
  { [d \in SearchDates |-> IF d \in h THEN c ELSE o] :
      h \in HolidaySets, c \in ClosedDays, o \in OpenDays }

SearchRecord(op, year, symbol, ret, persisted) ==
  [op |-> op, year |-> year, symbol |-> symbol, ret |-> ret, persisted |-> persisted]

InitSearch ==
  /\ smartFile = EmptySmartCache
  /\ searches = 0
  /\ lastSearch = SearchRecord("", 0, "", None, {})

FindFirstMarketDay(year, symbol, answers) ==
  /\ searches < MaxSearches
  /\ \E out \in {find_first_market_day_smart(smartFile, clock, year, symbol, answers)} :
       /\ smartFile' = out.file
       /\ lastSearch' = SearchRecord("first", year, symbol, out.ret, out.persisted)
  /\ searches' = searches + 1
  /\ UNCHANGED notSearchVars

GetLastTradingDay(year, symbol, answers) ==
  /\ searches < MaxSearches
  /\ \E out \in {get_last_trading_day_smart(smartFile, clock, year, symbol, answers)} :
       /\ smartFile' = out.file
       /\ lastSearch' = SearchRecord("last", year, symbol, out.ret, out.persisted)
  /\ searches' = searches + 1
  /\ UNCHANGED notSearchVars

NextSearch ==
  \/ \E year \in SearchYears, symbol \in PriceSymbols, answers \in SearchAnswers :
       FindFirstMarketDay(year, symbol, answers)
  \/ \E year \in SearchYears, symbol \in PriceSymbols, answers \in SearchAnswers :
       GetLastTradingDay(year, symbol, answers)

(***************************************************************************)
(*                            SPECIFICATIONS                               *)
(***************************************************************************)
Init == InitPrice /\ InitCal /\ InitItm /\ InitTrade /\ InitGemini /\ InitCapital
    /\ InitBacktest /\ InitClassify /\ InitSearch

\* The filter applied once to each of its inputs.
InitFilter ==
  InitPrice /\ InitCal /\ InitItmInputs /\ InitTrade /\ InitGemini /\ InitCapital
    /\ InitBacktest /\ InitClassify /\ InitSearch

\* The engine called once in each of its cases.
InitEngine ==
  InitPrice /\ InitCal /\ InitItm /\ InitTradeCases /\ InitGemini /\ InitCapital
    /\ InitBacktest /\ InitClassify /\ InitSearch

\* The orchestrator run once in each of its cases.
InitRuns ==
  InitPrice /\ InitCal /\ InitItm /\ InitTrade /\ InitGeminiCases /\ InitCapital
    /\ InitBacktest /\ InitClassify /\ InitSearch

\* The capital manager called once with each of its inputs.
InitSizing ==
  InitPrice /\ InitCal /\ InitItm /\ InitTrade /\ InitGemini /\ InitCapitalInputs
    /\ InitBacktest /\ InitClassify /\ InitSearch

\* A backtest run once in each of its cases.
InitBacktests ==
  InitPrice /\ InitCal /\ InitItm /\ InitTrade /\ InitGemini /\ InitCapital
    /\ InitBacktestCases /\ InitClassify /\ InitSearch

\* A provider asked once, for each of its answers.
InitClassified ==
  InitPrice /\ InitCal /\ InitItm /\ InitTrade /\ InitGemini /\ InitCapital
    /\ InitBacktest /\ InitClassifyCases /\ InitSearch

SpecPrice == Init /\ [][NextPrice]_vars

SpecCal == Init /\ [][NextCal]_vars

SpecItm == InitFilter /\ [][NextItm]_vars

SpecTrade == InitEngine /\ [][NextTrade]_vars

SpecGemini == InitRuns /\ [][NextGemini]_vars

SpecCapital == InitSizing /\ [][NextCapital]_vars

SpecBacktest == InitBacktests /\ [][NextBacktest]_vars

SpecClassify == InitClassified /\ [][NextClassify]_vars

SpecSearch == Init /\ [][NextSearch]_vars

(***************************************************************************)
(*                 PROPERTIES OF THE PRICE RESOLUTION SERVICE              *)
(***************************************************************************)
ResolveStep == resolves' = resolves + 1

LastKeyClosedBy(p) == <<p, lastResolve'.symbol, lastResolve'.date>> \in closedBy

IsCacheHit(steps, cache_type) ==
  /\ Len(steps) >= 1
  /\ steps[Len(steps)].op = "read"
  /\ steps[Len(steps)].entry_state = "valid"
  /\ steps[Len(steps)].cache_type = cache_type

ClosedReturnsNone == ClosedIn(lastResolve.steps) # {} => lastResolve.ret = None

\* C1, as stated: a call classified market closed returns None, and every
\* later call for the same symbol and date returns None as a cache hit and
\* calls no provider, whichever provider produced the classification.
C1_ClosedRepeatsWithoutCalls_AnyProvider ==
  /\ []ClosedReturnsNone
  /\ [][ \A p \in Providers :
           (ResolveStep /\ LastKeyClosedBy(p)) =>
             /\ lastResolve'.ret = None
             /\ IsCacheHit(lastResolve'.steps, "market_closed")
             /\ apiCalls' = apiCalls ]_vars

\* C1, amended: a call classified market closed returns None.  When the
\* primary provider produced the classification, every later call for the
\* same symbol and date returns None as a cache hit and calls no provider.
\* When the secondary produced it, a later call never calls the secondary
\* again for that symbol and date, and returns None unless the primary, tried
\* again, has succeeded since.
C1_ClosedRepeatsWithoutCalls_Primary ==
  /\ []ClosedReturnsNone
  /\ [][ (ResolveStep /\ LastKeyClosedBy("tiingo")) =>
           /\ lastResolve'.ret = None
           /\ lastResolve'.steps = <<[op |-> "read", provider |-> "tiingo",
                                      cache_type |-> "market_closed", price |-> 0,
                                      entry_state |-> "valid"]>>
           /\ apiCalls' = apiCalls ]_vars
  /\ [][ (ResolveStep /\ LastKeyClosedBy("marketstack")) =>
           /\ ~CalledIn(lastResolve'.steps, "marketstack")
           /\ \/ lastResolve'.ret = None
              \/ \E i \in 1..Len(lastResolve'.steps) :
                   /\ lastResolve'.steps[i].provider = "tiingo"
                   /\ lastResolve'.steps[i].cache_type = "success" ]_vars

\* C1, witness: a repeated call answered None from the primary's cached
\* market_closed entry, after the staleness window has passed.
C1_Witness ==
  /\ resolves >= 2
  /\ clock >= HourTicks
  /\ <<"tiingo", lastResolve.symbol, lastResolve.date>> \in closedBy
  /\ IsCacheHit(lastResolve.steps, "market_closed")
  /\ lastResolve.ret = None

\* C2, as stated: a provider is called only when the cache holds no entry for
\* (provider, symbol, date) or that entry has expired; no fresh call is made
\* while a temporary failure cached for that key is younger than one hour.
C2_CallOnlyWhenAbsentOrExpired ==
  \A i \in 1..Len(lastResolve.steps) :
    lastResolve.steps[i].op = "call" =>
      lastResolve.steps[i].entry_state \in {"absent", "expired"}

\* C3: the secondary provider is consulted (its cache read, or the provider
\* called) only after a fresh primary call of the same resolution ended in a
\* temporary failure; a primary outcome, cached or fresh, of success or market
\* closed is what the call returns, and the secondary is not consulted.
C3_SecondaryOnlyAfterPrimaryFailure ==
  LET s == lastResolve.steps IN
  /\ \A i \in 1..Len(s) :
       s[i].provider = "marketstack" =>
         \E j \in 1..(i - 1) :
           /\ s[j].provider = "tiingo"
           /\ s[j].op = "call"
           /\ s[j].cache_type = "temporary_failure"
  /\ \A j \in 1..Len(s) :
       (s[j].provider = "tiingo" /\ s[j].cache_type \in {"success", "market_closed"}) =>
         /\ \A i \in 1..Len(s) : s[i].provider # "marketstack"
         /\ lastResolve.ret =
              IF s[j].cache_type = "success" THEN Some(s[j].price) ELSE None

\* C3, witness: the primary failed and the secondary, called, gave the price.
C3_Witness ==
  /\ Len(lastResolve.steps) = 4
  /\ lastResolve.steps[2].provider = "tiingo"
  /\ lastResolve.steps[2].cache_type = "temporary_failure"
  /\ lastResolve.steps[4].provider = "marketstack"
  /\ lastResolve.steps[4].op = "call"
  /\ lastResolve.steps[4].cache_type = "success"
  /\ lastResolve.ret # None

TerminalEntry(cache, p, s, d) ==
  /\ CacheKey(p, s, d) \in DOMAIN cache[p]
  /\ cache[p][CacheKey(p, s, d)].cache_type \in {"success", "market_closed"}

\* C4: a success or market_closed entry of the cache file is terminal: no
\* later call and no passing of time removes it or changes its outcome, and
\* its provider is not called again for its key.
C4_TerminalEntriesStay ==
  [][ \A p \in Providers, s \in PriceSymbols, d \in PriceDates :
        TerminalEntry(cacheFile, p, s, d) =>
          /\ TerminalEntry(cacheFile', p, s, d)
          /\ cacheFile'[p][CacheKey(p, s, d)] = cacheFile[p][CacheKey(p, s, d)]
          /\ apiCalls'[<<p, s, d>>] = apiCalls[<<p, s, d>>] ]_vars

\* C4, witness: a terminal entry older than the staleness window has just
\* answered a call for its key.
C4_Witness ==
  \E p \in Providers, s \in PriceSymbols, d \in PriceDates :
    /\ TerminalEntry(cacheFile, p, s, d)
    /\ cacheFile[p][CacheKey(p, s, d)].cached_at = Some(0)
    /\ clock >= HourTicks
    /\ resolves >= 2
    /\ lastResolve.symbol = s /\ lastResolve.date = d
    /\ lastResolve.steps[Len(lastResolve.steps)].provider = p
    /\ lastResolve.steps[Len(lastResolve.steps)].op = "read"
    /\ lastResolve.steps[Len(lastResolve.steps)].entry_state = "valid"

\* What the claim calls a valid entry.
ValidAsClaimed(entry, now) ==
  /\ entry.cached_at # None
  /\ \/ entry.cache_type \in {"success", "market_closed"}
     \/ now - entry.cached_at[1] < HourTicks

ExpiredFailure(entry, now) ==
  /\ entry.cached_at # None
  /\ entry.cache_type = "temporary_failure"
  /\ now - entry.cached_at[1] >= HourTicks

\* C32: a cached price entry is treated as valid exactly when it has a
\* timestamp and either is a success or a market_closed, at any age, or is
\* younger than one hour; a temporary failure of one hour or more found on
\* lookup is removed from the cache, treated as absent, and a fresh call to
\* its provider is attempted.
C32_ExpiredFailureRefetched ==
  /\ [](\A p \in Providers, s \in PriceSymbols, d \in PriceDates :
          LET cached_entry == CachedEntry(cacheFile, p, s, d) IN
          cached_entry # None =>
            /\ is_cache_entry_valid(cached_entry[1], clock)
                 <=> ValidAsClaimed(cached_entry[1], clock)
            /\ get_cached_result(cacheFile, clock, p, s, d) # None
                 <=> ValidAsClaimed(cached_entry[1], clock)
            /\ ExpiredFailure(cached_entry[1], clock) =>
                 CachedEntry(cache_after_read(cacheFile, clock, p, s, d), p, s, d) = None)
  /\ [][ ResolveStep =>
           \A i \in 1..Len(lastResolve'.steps) :
             LET step == lastResolve'.steps[i]
                 cached_entry == CachedEntry(cacheFile, step.provider,
                                             lastResolve'.symbol, lastResolve'.date)
             IN step.op = "read" =>
                  /\ step.cache_type # "none" <=>
                       (cached_entry # None /\ ValidAsClaimed(cached_entry[1], clock))
                  /\ (cached_entry # None /\ ExpiredFailure(cached_entry[1], clock)) =>
                       /\ i < Len(lastResolve'.steps)
                       /\ lastResolve'.steps[i + 1].op = "call"
                       /\ lastResolve'.steps[i + 1].provider = step.provider
                       /\ apiCalls'[<<step.provider, lastResolve'.symbol, lastResolve'.date>>]
                            = apiCalls[<<step.provider, lastResolve'.symbol,
                                         lastResolve'.date>>] + 1 ]_vars

\* C32, witness: the primary's temporary failure, an hour old, was found on
\* lookup and the primary was called again.
C32_Witness ==
  /\ Len(lastResolve.steps) >= 2
  /\ lastResolve.steps[1].op = "read"
  /\ lastResolve.steps[1].provider = "tiingo"
  /\ lastResolve.steps[1].entry_state = "expired"
  /\ lastResolve.steps[2].op = "call"
  /\ lastResolve.steps[2].provider = "tiingo"
  /\ clock >= HourTicks

(***************************************************************************)
(*                 PROPERTIES OF THE TRADING CALENDAR CACHE                *)
(***************************************************************************)
StrictlyAscending(seq) == \A i \in 1..(Len(seq) - 1) : seq[i] < seq[i + 1]

\* C5: a list returned by get_trading_days_for_year is strictly ascending
\* (so without duplicates) and holds only dates of the year asked for; the
\* first trading day of a year entry is not after its last, in the cache file
\* and in what get_trading_days_range reads of it.
C5_ListsAscendingWithinYear ==
  /\ lastCal.days # None =>
       /\ StrictlyAscending(lastCal.days[1])
       /\ \A i \in 1..Len(lastCal.days[1]) : YearOf(lastCal.days[1][i]) = lastCal.year
  /\ \A y \in DOMAIN calFile.years :
       calFile.years[y].first_trading_day <= calFile.years[y].last_trading_day
  /\ (lastCal.op = "range" /\ lastCal.ret # None /\ lastCal.ret2 # None) =>
       lastCal.ret[1] <= lastCal.ret2[1]

\* C5, witness: a list of two days was returned, and the range of a year
\* whose first and last day differ was read.
C5_Witness ==
  \/ /\ lastCal.op = "trading_days"
     /\ lastCal.days # None
     /\ Len(lastCal.days[1]) >= 2
  \/ /\ lastCal.op = "range"
     /\ lastCal.ret # None /\ lastCal.ret2 # None
     /\ lastCal.ret # lastCal.ret2

\* C6, as stated: once the list of (symbol, year) has been fetched and
\* stored, a later query for (symbol, year) fetches nothing from the provider.
C6_FetchedOncePerSymbolYear == lastCal.known => lastCal.fetches = 0

\* C7, as stated: no calendar operation changes the trading-day list, the
\* first day or the last day of a year entry the cache file holds.
C7_EntryImmutable ==
  [][ \A y \in DOMAIN calFile.years :
        /\ y \in DOMAIN calFile'.years
        /\ calFile'.years[y].trading_days = calFile.years[y].trading_days
        /\ calFile'.years[y].first_trading_day = calFile.years[y].first_trading_day
        /\ calFile'.years[y].last_trading_day = calFile.years[y].last_trading_day ]_vars

\* C8: when the provider's answer holds no date of the year asked for (no
\* response, an exception, no parsable date, or dates of other years only),
\* get_trading_days_for_year returns None, raises nothing, and leaves the
\* cache file as it was.
C8_FailedFetchReturnsNone ==
  [][ (lastCal'.op = "trading_days" /\ lastCal'.fetches > 0 /\ ~lastCal'.usable) =>
        /\ lastCal'.days = None
        /\ ~lastCal'.raised
        /\ calFile' = calFile ]_vars

\* C8, witness: a fetch without a date of the year, over a cache file that
\* holds an earlier list, returned None.
C8_Witness ==
  /\ lastCal.op = "trading_days"
  /\ lastCal.fetches > 0
  /\ ~lastCal.usable
  /\ lastCal.days = None
  /\ calFile # EmptyCalFile

Earliest(S) == IF S = {} THEN None ELSE Some(SetMin(S))

Latest(S) == IF S = {} THEN None ELSE Some(SetMax(S))

\* C9: over the year's list, the first trading day of quarter q is the
\* earliest date with month >= 3q-2 and the last trading day of quarter q is
\* the latest date with month <= 3q; each is None exactly when there is no
\* such date.
C9_QuarterBounds ==
  /\ (lastCal.op = "first_of_quarter" /\ lastCal.days # None) =>
       lastCal.ret = Earliest({ d \in SeqToSet(lastCal.days[1]) :
                                  MonthOf(d) >= 3 * lastCal.quarter - 2 })
  /\ (lastCal.op = "last_of_quarter" /\ lastCal.days # None) =>
       lastCal.ret = Latest({ d \in SeqToSet(lastCal.days[1]) :
                                MonthOf(d) <= 3 * lastCal.quarter })

\* C9, witness: the last day of a quarter that is not the last day of the
\* list, or a quarter after the last day of the list.
C9_Witness ==
  \/ /\ lastCal.op = "last_of_quarter"
     /\ lastCal.days # None
     /\ lastCal.ret # None
     /\ lastCal.ret[1] # lastCal.days[1][Len(lastCal.days[1])]
  \/ /\ lastCal.op = "first_of_quarter"
     /\ lastCal.days # None
     /\ lastCal.ret = None

\* The summary of the year in the cache file was stored from the data of
\* the symbol.
SummaryOf(symbol, year) ==
  /\ ToString(year) \in DOMAIN calFile.years
  /\ calFile.years[ToString(year)].symbol = symbol

\* C33, as stated: calendar answers are keyed by symbol and year: what the
\* first trading day, the last trading day and the trading days of (s, y)
\* return is determined by the calendar fetched for s alone; after any
\* calendar operations for another symbol in the same year, a query for
\* (s, y) never returns dates taken from the other symbol's data.
C33_AnswersKeyedBySymbol ==
  (lastCal.op \in {"trading_days", "range"}
     /\ (lastCal.days # None \/ lastCal.ret # None \/ lastCal.ret2 # None)) =>
    /\ SummaryOf(lastCal.symbol, lastCal.year)
    /\ lastCal.days # None =>
         lastCal.days[1] = calFile.years[ToString(lastCal.year)].trading_days
    /\ lastCal.ret # None =>
         lastCal.ret[1] = calFile.years[ToString(lastCal.year)].first_trading_day
    /\ lastCal.ret2 # None =>
         lastCal.ret2[1] = calFile.years[ToString(lastCal.year)].last_trading_day


\* The months of a quarter.
MonthsOfQuarter(q) == (3 * q - 2)..(3 * q)

\* C38: over the year's list, a date returned as the first or the last
\* trading day of quarter q lies in quarter q (its month is in 3q-2..3q), and
\* when both are returned the first is not after the last, also for a list
\* without a trading day in quarter q.
C38_QuarterDaysInQuarter ==
  (lastCal.op \in {"first_of_quarter", "last_of_quarter"} /\ lastCal.days # None) =>
    /\ lastCal.ret # None => MonthOf(lastCal.ret[1]) \in MonthsOfQuarter(lastCal.quarter)
    /\ LET first == FirstOfQuarter(lastCal.days[1], lastCal.quarter)
           last == LastOfQuarter(lastCal.days[1], lastCal.quarter)
       IN (first # None /\ last # None) => first[1] <= last[1]


\* Two calls, one after the other, are for the same symbol and year.
SameQuery == lastCal'.symbol = lastCal.symbol /\ lastCal'.year = lastCal.year

\* The first and the last trading day a range call returned are the ends of
\* the list a trading-days call returned.
EndsOf(range, listed) ==
  /\ range.ret[1] = listed.days[1][1]
  /\ range.ret2[1] = listed.days[1][Len(listed.days[1])]

AllReturned(range, listed) ==
  range.ret # None /\ range.ret2 # None /\ listed.days # None

\* C39: the calendar queries stay consistent with each other after any
\* sequence of calls, also when the provider's list of the year has grown
\* between them: when the first trading day, the last trading day and the
\* trading days of (s, y) are asked one after the other and all return a
\* value, the first trading day is the first element and the last trading day
\* the last element of the list returned.
C39_QueriesConsistent ==
  [][ /\ (lastCal.op = "range" /\ lastCal'.op = "trading_days" /\ SameQuery
            /\ AllReturned(lastCal, lastCal')) => EndsOf(lastCal, lastCal')
      /\ (lastCal.op = "trading_days" /\ lastCal'.op = "range" /\ SameQuery
            /\ AllReturned(lastCal', lastCal)) => EndsOf(lastCal', lastCal) ]_vars

(***************************************************************************)
(*                     PROPERTIES OF THE ITM CALL FILTER                   *)
(***************************************************************************)
\* The calls of the chain that are in the money and quoted.
EligibleStrikes ==
  { bulk_data.response[i].strike : i \in
      { j \in 1..Len(bulk_data.response) :
          /\ bulk_data.response[j].shape = "ok"
          /\ bulk_data.response[j].right = "C"
          /\ bulk_data.response[j].strike < stock_price
          /\ \/ bulk_data.response[j].quote.close > 0
             \/ /\ bulk_data.response[j].quote.bid > 0
                /\ bulk_data.response[j].quote.ask > 0 } }

\* C10: every entry filter_itm_calls_from_bulk returns is a call of the chain
\* with its strike strictly below the spot price and with close > 0 or both
\* bid > 0 and ask > 0; the entries are in ascending distance from the spot
\* price, and the entry at index 0 has the greatest eligible strike.
C10_ItmCallsSortedBelowSpot ==
  valid_calls # None =>
    LET out == valid_calls[1] IN
    /\ \A i \in 1..Len(out) :
         /\ out[i].strike < stock_price
         /\ out[i].close > 0 \/ (out[i].bid > 0 /\ out[i].ask > 0)
         /\ \E j \in 1..Len(bulk_data.response) :
              /\ bulk_data.response[j].right = "C"
              /\ bulk_data.response[j].strike = out[i].strike
              /\ bulk_data.response[j].quote.close = out[i].close
              /\ bulk_data.response[j].quote.bid = out[i].bid
              /\ bulk_data.response[j].quote.ask = out[i].ask
    /\ \A i \in 1..(Len(out) - 1) :
         Abs(out[i].strike - stock_price) <= Abs(out[i + 1].strike - stock_price)
    /\ out # <<>> => out[1].strike = SetMax(EligibleStrikes)

\* C10, witness: of a chain that lists a farther eligible call before a
\* nearer one, and a quoted call at the spot price, the two were returned.
C10_Witness ==
  /\ valid_calls # None
  /\ Len(valid_calls[1]) = 2
  /\ valid_calls[1][1].strike > valid_calls[1][2].strike
  /\ \E i, j, k \in 1..Len(bulk_data.response) :
       /\ i < j
       /\ bulk_data.response[i].strike = valid_calls[1][2].strike
       /\ bulk_data.response[j].strike = valid_calls[1][1].strike
       /\ bulk_data.response[k].shape = "ok"
       /\ bulk_data.response[k].right = "C"
       /\ bulk_data.response[k].strike = stock_price
       /\ bulk_data.response[k].quote.close > 0

(***************************************************************************)
(*                 PROPERTIES OF THE OPTION SELECTION ENGINE               *)
(***************************************************************************)
Called(strategy) == trade_out # None /\ trade_in.strategy = strategy

\* The January expirations of the next year after the entry date that the
\* provider lists.
JanuaryCandidates ==
  { exp \in SeqToSet(theta.expirations.response) :
      /\ theta.expirations.has_response
      /\ IsDate(exp)
      /\ YearOf(exp) = trade_in.year + 1
      /\ MonthOf(exp) = 1
      /\ exp > trade_in.entry_date }

\* The dataset of an expiration is fully valid: the entry end-of-day data is
\* there, it has an eligible ITM call, the nearest of them has a 10:00 entry
\* price, and its exit lookup gives a price.
FullyValid(exp) ==
  LET chain == filter_itm_calls_from_bulk(Answer(theta.eod, exp), trade_in.stock_price)
      split_info == detect_stock_split(trade_in.symbol, trade_in.entry_date,
                                       trade_in.exit_date)
  IN /\ Answer(theta.eod, exp).has_response
     /\ chain # <<>>
     /\ extract_precise_entry_price_from_bulk(Answer(theta.quotes, exp),
                                              chain[1].strike) # None
     /\ get_exit_price_individual(
          Answer(theta.exit, <<exp, ExitStrike(chain[1].strike, split_info)>>)) # None

\* C11: find_optimal_leaps_annual_january returns the earliest January
\* candidate whose dataset is fully valid, and None exactly when there is
\* none; it probes the candidates in ascending order and none after the one
\* it returns.
C11_FirstValidJanuary ==
  Called("annual") =>
    LET out == trade_out[1]
        valid == { exp \in JanuaryCandidates : FullyValid(exp) }
    IN /\ out.ret = None <=> valid = {}
       /\ out.ret # None =>
            /\ out.ret[1].expiration = SetMin(valid)
            /\ out.ret[1].entry_price > 0
            /\ \A i \in 1..Len(out.calls) : out.calls[i].exp <= out.ret[1].expiration
       /\ \A i, j \in 1..Len(out.calls) : i < j => out.calls[i].exp <= out.calls[j].exp

\* C11, witness: of three candidates listed out of order only the second is
\* fully valid, and it was returned.
C11_Witness ==
  /\ Called("annual")
  /\ JanuaryCandidates = {20230106, 20230113, 20230120}
  /\ theta.expirations.response[1] = 20230120
  /\ { exp \in JanuaryCandidates : FullyValid(exp) } = {20230113}
  /\ trade_out[1].ret # None
  /\ trade_out[1].ret[1].expiration = 20230113

\* The expirations the provider lists on the entry date, and those of them
\* at least 365 days after it.
ListedOnEntry ==
  { theta.contracts.response[i].exp : i \in
      { j \in 1..Len(theta.contracts.response) :
          /\ theta.contracts.has_response
          /\ theta.contracts.response[j].len >= 2
          /\ IsDate(theta.contracts.response[j].exp) } }

LeapsListed ==
  { exp \in ListedOnEntry : ToOrdinal(exp) >= ToOrdinal(trade_in.entry_date) + 365 }

TargetDistance(exp) == Abs(DaysBetween(exp, AddMonths(trade_in.entry_date, 15)))

\* C12: execute_single_quarterly_trade selects the listed expiration at least
\* 365 days after the entry date that is nearest in days to the entry date
\* plus 15 months, the earlier one of two equally near; with no expiration
\* 365 days out it asks for no chain and returns None.
C12_ClosestLeapsExpiration ==
  Called("quarterly") =>
    LET out == trade_out[1] IN
    /\ LeapsListed = {} => (out.ret = None /\ Len(out.calls) = 1)
    /\ LeapsListed # {} =>
         /\ Len(out.calls) >= 2
         /\ out.calls[2].exp \in LeapsListed
         /\ \A exp \in LeapsListed :
              \/ TargetDistance(out.calls[2].exp) < TargetDistance(exp)
              \/ /\ TargetDistance(out.calls[2].exp) = TargetDistance(exp)
                 /\ out.calls[2].exp <= exp
    /\ out.ret # None =>
         /\ out.ret[1].expiration = out.calls[2].exp
         /\ out.ret[1].deviation_days = TargetDistance(out.ret[1].expiration)

\* C12, witness: of two expirations ten days before and after the target
\* (2023-04-03), listed with one less than 365 days out, the earlier is traded.
C12_Witness ==
  /\ Called("quarterly")
  /\ AddMonths(trade_in.entry_date, 15) = 20230403
  /\ {20221216, 20230324, 20230413} \subseteq ListedOnEntry
  /\ theta.contracts.response[1].exp = 20230413
  /\ trade_out[1].ret # None
  /\ trade_out[1].ret[1].expiration = 20230324
  /\ trade_out[1].ret[1].deviation_days = 10

\* The strikes of the eligible ITM calls of the chain of an expiration.
EligibleOf(exp) ==
  LET chain == filter_itm_calls_from_bulk(Answer(theta.eod, exp), trade_in.stock_price)
  IN { chain[i].strike : i \in 1..Len(chain) }

\* C13: with a pinned strike, execute_single_quarterly_trade trades that
\* strike or returns None: when the pinned strike is not among the eligible
\* ITM calls of the selected expiration it returns None without pricing
\* another strike.
C13_PinnedStrikeOrNone ==
  (Called("quarterly") /\ trade_in.fixed_strike # None) =>
    LET out == trade_out[1]
        pinned == trade_in.fixed_strike[1]
    IN /\ out.ret # None =>
            /\ out.ret[1].original_strike = pinned
            /\ pinned \in EligibleOf(out.ret[1].expiration)
       /\ (Len(out.calls) >= 2 /\ pinned \notin EligibleOf(out.calls[2].exp)) =>
            /\ out.ret = None
            /\ Len(out.calls) = 2
       /\ \A i \in 1..Len(out.calls) :
            out.calls[i].endpoint = "eod" =>
              out.calls[i].strike \in {pinned, pinned \div 20}

\* C13, witness: the pinned strike is not in a chain that has eligible calls,
\* and the period failed.
C13_Witness ==
  /\ Called("quarterly")
  /\ trade_in.fixed_strike = Some(140000)
  /\ Len(trade_out[1].calls) = 2
  /\ EligibleOf(trade_out[1].calls[2].exp) = {145000, 149000}
  /\ trade_out[1].ret = None

\* The holding window of the call contains the split date of its symbol.
SplitInWindow ==
  /\ trade_in.symbol = "GOOG"
  /\ trade_in.entry_date <= 20220715
  /\ 20220715 <= trade_in.exit_date

\* The raw price of the end-of-day record of the exit date under a strike.
RawExit(exp, strike) ==
  LET exit_record == Answer(theta.exit, <<exp, strike>>).response[1]
  IN IF exit_record.close > 0 THEN exit_record.close
     ELSE IF exit_record.bid > 0 THEN exit_record.bid
     ELSE 0

\* The strike of the exit lookup: the last hist/option/eod call.
ExitLookups(calls) ==
  { calls[i].strike : i \in { j \in 1..Len(calls) : calls[j].endpoint = "eod" } }

\* C14: a trade whose window holds the 20:1 split looks its exit up under
\* entry strike \div 20 and has exit price = raw price * 20, its entry strike
\* and entry price unadjusted; a trade without a split in its window looks
\* the exit up under the entry strike and has the raw price.
C14_SplitAdjustsExitOnly ==
  (trade_out # None /\ trade_out[1].ret # None) =>
    LET trade == trade_out[1].ret[1]
        lookup == IF SplitInWindow THEN trade.original_strike \div 20
                  ELSE trade.original_strike
        ratio == IF SplitInWindow THEN 20 ELSE 1
    IN /\ trade.split_info.has_split = SplitInWindow
       /\ trade.exit_strike = lookup
       /\ ExitLookups(trade_out[1].calls) = {lookup}
       /\ trade.exit_price = RawExit(trade.expiration, lookup) * ratio
       /\ trade.original_strike \in EligibleOf(trade.expiration)
       /\ Some(trade.entry_price) =
            extract_precise_entry_price_from_bulk(
              Answer(theta.quotes, trade.expiration), trade.original_strike)

\* C14, witness: a trade over the split, entered at 149000 and looked up at
\* 7450, where the record's close is 74.
C14_Witness ==
  /\ trade_out # None
  /\ trade_out[1].ret # None
  /\ SplitInWindow
  /\ trade_out[1].ret[1].original_strike = 149000
  /\ trade_out[1].ret[1].exit_strike = 7450
  /\ trade_out[1].ret[1].exit_price = 1480
  /\ trade_out[1].ret[1].entry_price = 1250

\* The engine called as in the state, with th for the provider.
EngineCall(th) ==
  IF trade_in.strategy = "annual"
    THEN find_optimal_leaps_annual_january(
           th, trade_in.symbol, trade_in.year, trade_in.entry_date,
           trade_in.exit_date, trade_in.stock_price)
    ELSE execute_single_quarterly_trade(
           th, trade_in.symbol, trade_in.entry_date, trade_in.exit_date,
           trade_in.stock_price, trade_in.fixed_strike)

\* The provider of the state with no Greeks on any date.
WithoutGreeks == [theta EXCEPT !.greeks = [d \in DOMAIN theta.greeks |-> NoData]]

\* C29: absence of Greeks never fails a trade: in both strategies the call
\* returns a trade with Greeks exactly when it returns one without, and the
\* two trades differ in entry_greeks and exit_greeks only, which are None
\* when the Greeks are absent.
C29_GreeksNeverFailTrade ==
  trade_out # None =>
    LET with == trade_out[1]
        without == EngineCall(WithoutGreeks)
    IN /\ (with.ret = None) = (without.ret = None)
       /\ with.calls = without.calls
       /\ with.ret # None =>
            /\ without.ret[1].entry_greeks = None
            /\ without.ret[1].exit_greeks = None
            /\ without.ret[1] = [with.ret[1] EXCEPT !.entry_greeks = None,
                                                    !.exit_greeks = None]

\* C29, witness: a trade returned with its entry Greeks, and the same trade
\* returned without them when the provider has none.
C29_Witness ==
  /\ trade_out # None
  /\ trade_out[1].ret # None
  /\ trade_out[1].ret[1].entry_greeks # None
  /\ theta # WithoutGreeks
  /\ EngineCall(WithoutGreeks).ret # None
  /\ EngineCall(WithoutGreeks).ret[1].entry_price = trade_out[1].ret[1].entry_price

(***************************************************************************)
(*                PROPERTIES OF THE COMPOUNDING ORCHESTRATOR               *)
(***************************************************************************)
\* C15: the split ratio is applied to a trade's exit value once: the
\* exit_price of the engine holds it already, so the sale proceeds of every
\* settled trade are num_contracts * exit_price * 100 less the commissions.
C15_SplitRatioAppliedOnce ==
  run_out # None =>
    \A i \in 1..Len(run_out[1].trades) :
      LET settled == run_out[1].trades[i]
      IN settled.sale_proceeds =
           (settled.num_contracts * settled.exit_price * 100)
             - (settled.num_contracts * COMMISSION_PER_CONTRACT)

\* The expiration whose 10:00 quotes a quarterly call asked for, if any.
QuotedExpirations ==
  { trade_out[1].calls[i].exp :
      i \in { j \in 1..Len(trade_out[1].calls) :
                trade_out[1].calls[j].endpoint = "bulk_at_time" } }

\* The quotes of an answer that price a strike: a call of that strike with a
\* full first tick and a positive ask or bid.
PricingQuotes(bulk_quotes, strike) ==
  IF ~bulk_quotes.has_response THEN {}
  ELSE { i \in 1..Len(bulk_quotes.response) :
           /\ bulk_quotes.response[i].shape = "ok"
           /\ bulk_quotes.response[i].strike = strike
           /\ bulk_quotes.response[i].right = "C"
           /\ (bulk_quotes.response[i].ask > 0 \/ bulk_quotes.response[i].bid > 0) }

\* C16: the entry price of the selected strike is the ask of its 10:00 quote
\* when the ask is positive, otherwise its positive bid, and it is positive;
\* when no quote of the strike has a positive ask or bid the period has no
\* trade and no exit is looked up.
C16_EntryPriceAskElseBid ==
  (Called("quarterly") /\ QuotedExpirations # {}) =>
    \A exp \in QuotedExpirations :
      LET out == trade_out[1]
          strike == IF trade_in.fixed_strike # None THEN trade_in.fixed_strike[1]
                    ELSE SetMax(EligibleOf(exp))
          bulk_quotes == Answer(theta.quotes, exp)
          pricing == PricingQuotes(bulk_quotes, strike)
      IN /\ pricing = {} =>
              /\ out.ret = None
              /\ ExitLookups(out.calls) = {}
         /\ pricing # {} =>
              LET quote == bulk_quotes.response[SetMin(pricing)]
                  price == IF quote.ask > 0 THEN quote.ask ELSE quote.bid
              IN /\ price > 0
                 /\ ExitLookups(out.calls) # {}
                 /\ out.ret # None =>
                      /\ out.ret[1].original_strike = strike
                      /\ out.ret[1].entry_price = price

\* C16, witness: the quote of the selected strike has no ask, and the trade is
\* entered at its bid.
C16_Witness ==
  /\ Called("quarterly")
  /\ trade_out[1].ret # None
  /\ Answer(theta.quotes, trade_out[1].ret[1].expiration).response
       = <<QuoteData("ok", 149000, "C", 1200, 0)>>
  /\ trade_out[1].ret[1].original_strike = 149000
  /\ trade_out[1].ret[1].entry_price = 1200

\* The end-of-day answer of the exit date has a full first record.
HasExitRecord(exit_data) ==
  /\ exit_data.has_response
  /\ exit_data.response # <<>>
  /\ exit_data.response[1].shape = "ok"

\* C17: the exit price is the close of the end-of-day record when positive,
\* otherwise its bid when positive, otherwise 0 for a record of zeros, and the
\* trade is returned with that price (times the split ratio) and
\* P&L = exit price - entry price, -entry_price for a worthless exit; without
\* a record the candidate or period fails.
C17_ExitPriceCloseBidOrZero ==
  trade_out # None =>
    LET out == trade_out[1]
        ratio == IF SplitInWindow THEN 20 ELSE 1
    IN \A i \in { j \in 1..Len(out.calls) : out.calls[j].endpoint = "eod" } :
         LET exp == out.calls[i].exp
             strike == out.calls[i].strike
         IN IF HasExitRecord(Answer(theta.exit, <<exp, strike>>))
              THEN /\ out.ret # None
                   /\ out.ret[1].expiration = exp
                   /\ out.ret[1].exit_strike = strike
                   /\ out.ret[1].exit_price = RawExit(exp, strike) * ratio
                   /\ out.ret[1].pnl_per_contract =
                        out.ret[1].exit_price - out.ret[1].entry_price
                   /\ RawExit(exp, strike) = 0 =>
                        out.ret[1].pnl_per_contract = 0 - out.ret[1].entry_price
              ELSE /\ out.ret # None => out.ret[1].expiration # exp
                   /\ trade_in.strategy = "quarterly" => out.ret = None

\* C17, witness: a record of zeros, and the trade returned with exit price 0
\* and the entry price lost.
C17_Witness ==
  /\ trade_out # None
  /\ trade_out[1].ret # None
  /\ Answer(theta.exit, <<trade_out[1].ret[1].expiration,
                          trade_out[1].ret[1].exit_strike>>)
       = Data(<<ExitRecord("ok", 0, 0)>>)
  /\ trade_out[1].ret[1].exit_price = 0
  /\ trade_out[1].ret[1].entry_price > 0
  /\ trade_out[1].ret[1].pnl_per_contract = 0 - trade_out[1].ret[1].entry_price

(***************************************************************************)
(*                    PROPERTIES OF CAPITAL MANAGEMENT                     *)
(***************************************************************************)
Sized(function) == size_out # None /\ size_in.function = function

\* The cost of a contract of the call: price * 100 + commission.
CostPerContract ==
  (size_in.option_price * 100) + size_in.commission_per_contract

NoneAffordable ==
  \/ CostPerContract > size_in.available_capital
  \/ /\ CostPerContract > 0
     /\ CostPerContract <= size_in.available_capital
     /\ CappedCount(size_in.available_capital \div CostPerContract,
                    size_in.max_contracts_per_trade) = 0

\* The outcome of a skipped trade: nothing bought, nothing spent, the capital
\* left whole.
KeepsCapital(out) ==
  /\ out.num_contracts = 0
  /\ "total_cost" \in DOMAIN out
  /\ out.total_cost = 0
  /\ "leftover_cash" \in DOMAIN out
  /\ out.leftover_cash = size_in.available_capital

\* C19, as stated: whenever no contract is affordable, calculate_position_size
\* returns num_contracts 0, total cost 0 and the whole capital as leftover.
C19_NoneAffordableKeepsCapital ==
  (Sized("position") /\ NoneAffordable) => KeepsCapital(size_out[1])

\* C19, amended: that holds for a capital > 0 and a price > 0; for a capital
\* <= 0 or a price <= 0 the outcome is an error with num_contracts 0 and
\* neither a total cost nor a leftover.
C19_NoneAffordableKeepsCapital_ValidInputs ==
  Sized("position") =>
    IF size_in.available_capital > 0 /\ size_in.option_price > 0
      THEN /\ NoneAffordable => (KeepsCapital(size_out[1]) /\ size_out[1].error # "")
           /\ size_out[1].num_contracts = 0 => NoneAffordable
      ELSE /\ size_out[1].num_contracts = 0
           /\ size_out[1].error # ""
           /\ DOMAIN size_out[1] = {"error", "num_contracts"}

\* C19, witness: a contract of $1.35 and a capital of $0.90.
C19_Witness ==
  /\ Sized("position")
  /\ size_in.available_capital = 90
  /\ size_in.option_price = 1
  /\ size_in.commission_per_contract = 35
  /\ KeepsCapital(size_out[1])

\* C20: for num_contracts >= 1 and an exit price >= 0,
\* calculate_exit_proceeds returns gross_proceeds = num_contracts * exit_price
\* * 100 and net_proceeds = gross_proceeds - num_contracts * commission.
C20_ExitProceeds ==
  (Sized("exit") /\ size_in.num_contracts >= 1 /\ size_in.exit_price >= 0) =>
    /\ size_out[1].gross_proceeds = size_in.num_contracts * size_in.exit_price * 100
    /\ size_out[1].net_proceeds =
         size_out[1].gross_proceeds
           - (size_in.num_contracts * size_in.commission_per_contract)

\* C20, witness: 19 contracts sold at $60 with a commission of $0.35 give
\* $114,000 gross and $113,993.35 net.
C20_Witness ==
  /\ Sized("exit")
  /\ size_in.num_contracts = 19
  /\ size_in.exit_price = 6000
  /\ size_in.commission_per_contract = 35
  /\ size_out[1].gross_proceeds = 11400000
  /\ size_out[1].net_proceeds = 11399335

\* C30: the sizing functions of run_claude_backtest agree with capital
\* management on every valid input: the same number of contracts and
\* leftover cash for the same capital, price, commission and cap, and the
\* same gross and net proceeds for the same contracts, exit price and
\* commission.
C30_OwnSizingAgrees ==
  /\ (Sized("run_claude_position") /\ size_in.available_capital > 0
        /\ size_in.option_price > 0) =>
       LET contract == calculate_position_size(
                         size_in.available_capital, size_in.option_price,
                         size_in.commission_per_contract,
                         size_in.max_contracts_per_trade)
       IN /\ size_out[1].num_contracts = contract.num_contracts
          /\ size_out[1].leftover_cash = contract.leftover_cash
  /\ (Sized("run_claude_exit") /\ size_in.num_contracts >= 1) =>
       LET contract == calculate_exit_proceeds(
                         size_in.num_contracts, size_in.exit_price,
                         size_in.commission_per_contract)
       IN /\ size_out[1].gross_proceeds = contract.gross_proceeds
          /\ size_out[1].net_proceeds = contract.net_proceeds


\* The position was sized and bought: the dictionary has no error.
SizedTrade == Sized("position") /\ size_out[1].error = ""

\* The cap on the contracts of a trade does not bind: the capital affords no
\* more contracts than the cap allows.
CapNotBinding ==
  size_in.available_capital \div CostPerContract <= size_in.max_contracts_per_trade

Backtested(function) == backtest_in.function = function /\ backtest_out # None

\* The result of a backtest of a year that returned.
YearResult == backtest_out[1].ret[1]

ReturnedYear(function) == Backtested(function) /\ backtest_out[1].raised = ""

\* The capital a record of a quarter ends with, from its sizing.
SizedEndingCapital(record) ==
  run_claude_calculate_exit_proceeds(
    record.num_contracts, record.exit_price,
    backtest_in.commission_per_contract).net_proceeds
  + run_claude_calculate_position_size(
      record.available_capital, record.entry_price,
      backtest_in.commission_per_contract,
      backtest_in.max_contracts_per_trade).leftover_cash

\* C21: in the quarterly compounding backtest, a period in which a trade is
\* executed ends with the capital netProceeds + leftoverCash of its sizing,
\* and the next processed period starts with exactly that capital (the year
\* ends with it when no period follows); the annual backtest ends the year
\* with netProceeds + leftoverCash of its trade.
C21_EndingCapitalCarried ==
  /\ ReturnedYear("quarterly") =>
       LET trades == YearResult.quarterly_trades
       IN \A i \in 1..Len(trades) :
            trades[i].num_contracts # 0 =>
              /\ trades[i].capital_after_trade = SizedEndingCapital(trades[i])
              /\ IF i < Len(trades)
                   THEN trades[i + 1].available_capital = trades[i].capital_after_trade
                   ELSE YearResult.final_capital = trades[i].capital_after_trade
  /\ (ReturnedYear("annual") /\ YearResult.num_contracts # 0) =>
       YearResult.final_capital = YearResult.net_proceeds + YearResult.leftover_cash

\* Two quarters in a row trade, with a commission, and a third starts with
\* what the second left.
C21_Witness ==
  /\ ReturnedYear("quarterly")
  /\ backtest_in.commission_per_contract > 0
  /\ LET trades == YearResult.quarterly_trades
     IN /\ Len(trades) >= 3
        /\ trades[1].num_contracts > 0 /\ trades[2].num_contracts > 0
        /\ trades[2].capital_after_trade # trades[2].available_capital
        /\ trades[3].available_capital = trades[2].capital_after_trade

\* The dates of a quarter of the year backtested, as the quarterly backtest
\* takes them from the calendar.
MostRecentDayOfRun ==
  IF backtest_in.start_year = YearOf(world.today) THEN MostRecentTradingDay(world)
  ELSE None

QuarterEntry(q) == FirstOfQuarter(TradingDaysOf(world, backtest_in.start_year), q)

QuarterExit(q) ==
  CappedExit(LastOfQuarter(TradingDaysOf(world, backtest_in.start_year), q),
             MostRecentDayOfRun)

\* The quarter starts after the most recent trading day.
FutureQuarter(q) ==
  /\ MostRecentDayOfRun # None /\ QuarterEntry(q) # None
  /\ QuarterEntry(q)[1] > MostRecentDayOfRun[1]

\* The quarter has its dates, and no day between them.
EmptyQuarter(q) ==
  /\ QuarterEntry(q) # None /\ QuarterExit(q) # None
  /\ QuarterEntry(q)[1] >= QuarterExit(q)[1]

RecordedQuarters(trades) == { trades[i].quarter : i \in 1..Len(trades) }

\* C22: in the quarterly compounding backtest a period without an executable
\* trade (dates or spot price unavailable, selection or pricing failure, no
\* affordable contract) is recorded as a no-trade period whose
\* capital_after_trade is the capital before it, which is the capital the
\* period before left, and the remaining periods are still processed: the
\* backtest returns, every quarter that has started and has a day to trade
\* on is recorded, and a trade is of one contract at least.
C22_NoTradeKeepsCapital ==
  Backtested("quarterly") =>
    /\ backtest_out[1].raised = ""
    /\ LET trades == YearResult.quarterly_trades
       IN /\ \A i \in 1..Len(trades) : trades[i].num_contracts >= 0
          /\ \A i \in 1..Len(trades) :
               trades[i].num_contracts = 0 =>
                 /\ trades[i].error # ""
                 /\ trades[i].capital_after_trade = trades[i].available_capital
                 /\ trades[i].available_capital =
                      IF i = 1 THEN backtest_in.capital
                      ELSE trades[i - 1].capital_after_trade
                 /\ i = Len(trades) =>
                      YearResult.final_capital = trades[i].available_capital
          /\ \A q \in 1..4 :
               q \notin RecordedQuarters(trades) =>
                 \/ EmptyQuarter(q)
                 \/ \E earlier \in 1..q : FutureQuarter(earlier)

\* The quarterly backtest run for the quarters from q to last alone, started
\* with a capital.
RunOfQuarters(q, last, capital) ==
  QuarterlyYear(
    backtest_in.start_year, capital,
    QuartersFrom(world, backtest_in.start_year, q, last, capital,
                 backtest_in.commission_per_contract,
                 backtest_in.max_contracts_per_trade, 0, <<>>))

\* The records of the periods in which a trade was executed.
Executed(trades) == SelectSeq(trades, LAMBDA record : record.num_contracts # 0)

\* Quarter q, then quarter q + 1 started with what the first run ended with,
\* give what one pass over both gives.
Composes(q, capital) ==
  LET first == RunOfQuarters(q, q, capital)
      both == RunOfQuarters(q, q + 1, capital)
  IN IF first.raised # "" THEN both.raised = first.raised
     ELSE LET second == RunOfQuarters(q + 1, q + 1, first.ret[1].final_capital)
          IN /\ both.raised = second.raised
             /\ both.raised = "" =>
                  /\ both.ret[1].final_capital = second.ret[1].final_capital
                  /\ Executed(both.ret[1].quarterly_trades)
                       = Executed(first.ret[1].quarterly_trades)
                           \o Executed(second.ret[1].quarterly_trades)

\* C23: compounding composes: for every starting capital and every pair of
\* consecutive quarters, the quarterly backtest run for the first quarter and
\* then, independently, for the second quarter with the capital the first
\* run ended with gives the same ending capital and the same trades as one
\* pass over both quarters; the backtest of the year is the pass over its
\* four quarters.
C23_CompoundingComposes ==
  Backtested("quarterly") =>
    /\ backtest_out[1] = RunOfQuarters(1, 4, backtest_in.capital)
    /\ \A q \in 1..3 : Composes(q, backtest_in.capital)

\* C24: the quarterly compounding backtest processes the periods in the
\* order Q1, Q2, Q3, Q4 and the periods are contiguous: the first quarter is
\* entered on the first trading day of the year, and each later quarter is
\* entered on the exit date of the quarter before it and exits at its own
\* quarter end.
C24_QuartersContiguous ==
  ReturnedYear("quarterly") =>
    LET trades == YearResult.quarterly_trades
    IN /\ \A i \in 1..Len(trades) - 1 : trades[i].quarter < trades[i + 1].quarter
       /\ \A i \in 1..Len(trades) :
            trades[i].num_contracts # 0 =>
              /\ trades[i].exit_date = QuarterExit(trades[i].quarter)[1]
              /\ trades[i].entry_date =
                   IF trades[i].quarter = 1
                     THEN FirstTradingDay(world, backtest_in.start_year)[1]
                     ELSE QuarterExit(trades[i].quarter - 1)[1]


\* C35: in the quarterly compounding backtest, started with a capital that is
\* not negative, the capital never becomes negative: the capital each period
\* begins with, the capital each period leaves and the final capital of the
\* year are 0 or more, and every executed trade is of one contract at least.
C35_CapitalNeverNegative ==
  (ReturnedYear("quarterly") /\ backtest_in.capital >= 0) =>
    LET trades == YearResult.quarterly_trades
    IN /\ YearResult.final_capital >= 0
       /\ \A i \in 1..Len(trades) :
            /\ trades[i].available_capital >= 0
            /\ trades[i].capital_after_trade >= 0
            /\ trades[i].error = "" => trades[i].num_contracts >= 1


(***************************************************************************)
(*             PROPERTIES OF THE QUARTERLY STRATEGY OF A YEAR              *)
(***************************************************************************)
\* The strategy returned a year with trades.
TradedYear == ReturnedYear("analyze_quarterly_strategy") /\ YearResult # None

YearTrades == YearResult[1].trades

\* The period of the schedule a trade was made in.
PeriodOf(trade) ==
  LET trade_schedule == YearResult[1].quarter_schedule
  IN trade_schedule[CHOOSE i \in 1..4 : trade_schedule[i].quarter = trade.quarter]

\* What the selection of a period gives when called with a fixed strike.
SelectionOf(period, fixed_strike) ==
  IF period.entry = None \/ period.exit = None THEN None
  ELSE IF world.stock_price[period.entry[1]] = None THEN None
  ELSE execute_single_quarterly_trade(
         world.theta[period.entry[1]], SYMBOL, period.entry[1], period.exit[1],
         world.stock_price[period.entry[1]][1], fixed_strike).ret

QuartersTraded == { YearTrades[i].quarter : i \in 1..Len(YearTrades) }

\* C25: in fixed-strike mode the strike of the first successful quarter of a
\* year is locked: the first trade is selected freely, every later quarter is
\* selected with exactly that strike, so that every later trade has it and a
\* quarter where it is not eligible has no trade; without the mode every
\* quarter is selected freely.
C25_FixedStrikeLocked ==
  TradedYear =>
    LET locked == IF backtest_in.use_fixed_strikes
                    THEN Some(YearTrades[1].original_strike)
                    ELSE None
        first == CHOOSE i \in 1..4 :
                   YearResult[1].quarter_schedule[i].quarter = YearTrades[1].quarter
    IN /\ YearTrades[1].fixed_strike = None
       /\ \A i \in 2..Len(YearTrades) :
            /\ YearTrades[i].fixed_strike = locked
            /\ backtest_in.use_fixed_strikes =>
                 YearTrades[i].original_strike = YearTrades[1].original_strike
       /\ \A i \in (first + 1)..4 :
            LET period == YearResult[1].quarter_schedule[i]
            IN period.quarter \in QuartersTraded <=> SelectionOf(period, locked) # None

\* In fixed-strike mode a quarter after the first trade has no trade, though
\* a call of another strike was eligible, and a later quarter trades the
\* locked strike again.
C25_Witness ==
  /\ TradedYear /\ backtest_in.use_fixed_strikes
  /\ Len(YearTrades) >= 2
  /\ \E i \in 2..3 :
       LET period == YearResult[1].quarter_schedule[i]
       IN /\ period.quarter \notin QuartersTraded
          /\ SelectionOf(period, None) # None
          /\ SelectionOf(period, None)[1].original_strike # YearTrades[1].original_strike
          /\ \E j \in 1..Len(YearTrades) :
               PeriodOf(YearTrades[j]) = YearResult[1].quarter_schedule[i + 1]

\* The counts, sums and averages of the yearly summary, over the trades of
\* the year.
SummaryOfTrades ==
  LET summary == YearResult[1].yearly_summary
  IN /\ summary.total_trades = Len(YearTrades)
     /\ summary.winning_trades =
          Cardinality({ i \in 1..Len(YearTrades) : YearTrades[i].pnl_per_contract > 0 })
     /\ summary.total_pnl = SumOf(YearTrades, "pnl_per_contract")
     /\ summary.avg_hold_days.divisor = Len(YearTrades)
     /\ summary.avg_hold_days.dividend = SumOf(YearTrades, "hold_days")
     /\ summary.avg_months_to_exp.divisor = Len(YearTrades)
     /\ summary.avg_months_to_exp.dividend = SumOf(YearTrades, "days_to_exp")

\* C27: the yearly summary of the quarterly strategy reports, over the
\* executed trades of the year, their number, the number with a positive
\* P&L, the sum of their P&L, their average hold days and months to
\* expiration, and the average of their deviations in days from the 15-month
\* target.
C27_YearlySummary ==
  TradedYear =>
    /\ SummaryOfTrades
    /\ YearResult[1].yearly_summary.max_deviation_days * Len(YearTrades)
         = SumOf(YearTrades, "deviation_days")

\* C27 as the code has it: the same, with the greatest of the deviations (in
\* max_deviation_days) in place of their average.
C27_YearlySummary_MaxDeviation ==
  TradedYear =>
    /\ SummaryOfTrades
    /\ \E i \in 1..Len(YearTrades) :
         YearResult[1].yearly_summary.max_deviation_days = YearTrades[i].deviation_days
    /\ \A i \in 1..Len(YearTrades) :
         YearResult[1].yearly_summary.max_deviation_days >= YearTrades[i].deviation_days

\* A year of four trades, winners and losers, with different deviations.
C27_Witness ==
  /\ TradedYear
  /\ Len(YearTrades) = 4
  /\ YearResult[1].yearly_summary.winning_trades \in 1..3
  /\ \E i, j \in 1..4 : YearTrades[i].deviation_days < YearTrades[j].deviation_days


\* C37: every trade of the quarterly strategy is entered before it is exited:
\* for every list of the year's trading days, that of a current year which
\* has only its first months included, each trade analyze_quarterly_strategy
\* returns has entry_date < exit_date, a period whose entry date is not
\* before its exit date being left out.
C37_EntryBeforeExit ==
  TradedYear =>
    \A i \in 1..Len(YearTrades) : YearTrades[i].entry_date < YearTrades[i].exit_date

(***************************************************************************)
(*                 PROPERTIES OF THE CURRENT, INCOMPLETE YEAR              *)
(***************************************************************************)
\* The year backtested is the current one, and has a trading day up to today.
CurrentYear == MostRecentDayOfRun # None

\* No trade of the compounding backtests is entered or exits after the most
\* recent trading day; a quarter exits on it or, earlier, at its own end; the
\* annual trade exits on it.
CompoundingCapped ==
  /\ (ReturnedYear("quarterly") /\ CurrentYear) =>
       LET trades == YearResult.quarterly_trades
       IN \A i \in 1..Len(trades) :
            trades[i].num_contracts # 0 =>
              /\ trades[i].entry_date <= MostRecentDayOfRun[1]
              /\ trades[i].exit_date <= MostRecentDayOfRun[1]
              /\ \/ trades[i].exit_date = MostRecentDayOfRun[1]
                 \/ Some(trades[i].exit_date)
                      = LastOfQuarter(TradingDaysOf(world, backtest_in.start_year),
                                      trades[i].quarter)
  /\ (ReturnedYear("annual") /\ CurrentYear /\ YearResult.trade_details # None) =>
       /\ YearResult.trade_details[1].entry_date <= MostRecentDayOfRun[1]
       /\ YearResult.trade_details[1].exit_date = MostRecentDayOfRun[1]

\* The last period of the quarterly strategy exits on the most recent trading
\* day.
FinalPeriodCapped ==
  (TradedYear /\ CurrentYear) =>
    /\ YearResult[1].quarter_schedule[4].exit = MostRecentDayOfRun
    /\ \A i \in 1..Len(YearTrades) :
         YearTrades[i].quarter = "Q4" => YearTrades[i].exit_date = MostRecentDayOfRun[1]

\* C26: when the year processed is the current, incomplete year, no period
\* exits after the most recent trading day not exceeding today: the final
\* period exits on that day rather than at the end of the year, and no trade
\* is entered on a date after it.
C26_NoPeriodAfterMostRecentDay ==
  /\ CompoundingCapped
  /\ FinalPeriodCapped
  /\ (TradedYear /\ CurrentYear) =>
       \A i \in 1..Len(YearTrades) :
         /\ YearTrades[i].entry_date <= MostRecentDayOfRun[1]
         /\ YearTrades[i].exit_date <= MostRecentDayOfRun[1]

\* C26 as the code has it: the compounding backtests keep every period up to
\* the most recent trading day; the quarterly strategy of the engine caps its
\* final period only.
C26_FinalPeriodAtMostRecentDay == CompoundingCapped /\ FinalPeriodCapped

\* A quarter of the current year that the calendar ends later than the most
\* recent trading day is traded up to that day.
C26_Witness ==
  /\ ReturnedYear("quarterly") /\ CurrentYear
  /\ \E i \in 1..Len(YearResult.quarterly_trades) :
       LET record == YearResult.quarterly_trades[i]
       IN /\ record.num_contracts > 0
          /\ record.exit_date = MostRecentDayOfRun[1]
          /\ LastOfQuarter(TradingDaysOf(world, backtest_in.start_year),
                           record.quarter)[1] > MostRecentDayOfRun[1]

(***************************************************************************)
(*               PROPERTIES OF THE BACKTEST OF A RANGE OF YEARS            *)
(***************************************************************************)
\* The years of the range that are not in the future.
YearsToProcess ==
  { year \in backtest_in.start_year..backtest_in.end_year : year <= YearOf(world.today) }

\* C28: whatever the calendar, the price service and the provider answer in
\* any period of any year, and for any starting capital and commission, the
\* backtest of a range of years is not aborted: for every year of the range
\* that is not in the future the annual and the quarterly analysis complete
\* and one result each is recorded, in the order of the years, and the run
\* reaches its end.
C28_BacktestNeverAborts ==
  (Backtested("main") /\ backtest_in.terminal_running) =>
    LET all_results == backtest_out[1].all_results
    IN /\ backtest_out[1].raised = ""
       /\ Len(all_results) = 2 * Cardinality(YearsToProcess)
       /\ \A year \in YearsToProcess :
            LET k == year - backtest_in.start_year
            IN /\ all_results[2 * k + 1].year = year
               /\ all_results[2 * k + 1].strategy = "Annual Compounding"
               /\ all_results[2 * k + 2].year = year
               /\ all_results[2 * k + 2].strategy = "Quarterly Rolling Compounding"

(***************************************************************************)
(*            PROPERTIES OF THE CLASSIFICATION OF A RESPONSE               *)
(***************************************************************************)
\* The kinds of temporary failure the specification names.
NamedFailureKinds ==
  {"rate_limit", "timeout", "unauthorized", "server_error", "network_error",
   "no_api_key"}

\* The kinds of temporary failure the code produces.
FailureKinds ==
  NamedFailureKinds \cup {"json_decode", "http_error", "unexpected_format"}

\* The call was answered an empty result set.
EmptyResultSet ==
  /\ raw_in.env.has_key
  /\ raw_in.env.response.call_success
  /\ raw_in.env.response.raw_response.items = 0
  /\ \/ raw_in.provider = "tiingo" /\ raw_in.env.response.raw_response.type = "list"
     \/ /\ raw_in.provider = "marketstack"
        /\ raw_in.env.response.raw_response.type = "dict"
        /\ raw_in.env.response.raw_response.has_data

\* The result is exactly one of a success with a price, a closed market and
\* a temporary failure of one of the kinds, and an empty result set is a
\* closed market.
ClassifiedInto(kinds) ==
  classified # None =>
    LET result == classified[1] IN
    /\ result.provider = raw_in.provider
    /\ result.cache_type \in {"success", "market_closed", "temporary_failure"}
    /\ result.cache_type = "success" <=> result.success
    /\ result.success => /\ result.error = ""
                         /\ result.price = raw_in.env.response.raw_response.open
    /\ result.cache_type = "market_closed" <=> result.error = "market_closed"
    /\ result.cache_type = "temporary_failure" => result.error \in kinds
    /\ EmptyResultSet => result.cache_type = "market_closed"

KeptOutcomes == {"success", "market_closed"}

\* The entries of the persisted cache that the most recent search lost: an
\* outcome its price resolutions had written to the file which the file no
\* longer holds when the search has returned.
LostOutcomes ==
  { k \in lastSearch.persisted :
      \/ k[2] \notin DOMAIN smartFile.providers[k[1]]
      \/ smartFile.providers[k[1]][k[2]].cache_type \notin KeptOutcomes }

\* C34: when find_first_market_day_smart or get_last_trading_day_smart has
\* returned, every success or market_closed entry that the price resolutions
\* of its search wrote to the cache file is still in the cache file.
C34_NoOutcomeLost == LostOutcomes = {}

====
